---------------------------- MODULE Spec2Model ----------------------------
(***************************************************************************)
(* TalentSol SQL API (backend/apis/sql_api.py): the POST /query gateway    *)
(* (validation, cache lookup, pooled execution, cache write, response)     *)
(* and GET /stats, as a state machine over concurrent requests.            *)
(*                                                                         *)
(* Text is modelled as TLA+ strings, read character by character with     *)
(* SubSeq, so that str.upper, str.strip, the `in` substring test and the   *)
(* regular expressions of validate_sql_security are computed, not assumed. *)
(***************************************************************************)
EXTENDS Integers, Sequences, FiniteSets, TLC

(***************************************************************************)
(* Python text primitives                                                  *)
(***************************************************************************)

\* s[i] of Python (1-based here); "" outside the text.
ch(s, i) == IF i >= 1 /\ i <= Len(s) THEN SubSeq(s, i, i) ELSE ""

LowerLetters == "abcdefghijklmnopqrstuvwxyz"
UpperLetters == "ABCDEFGHIJKLMNOPQRSTUVWXYZ"
Digits == "0123456789"

\* Position of the one-character string c in the text t, 0 when absent.
IndexIn(t, c) ==
    IF \E i \in 1..Len(t) : ch(t, i) = c
    THEN CHOOSE i \in 1..Len(t) : ch(t, i) = c
    ELSE 0

UpperChar(c) ==
    IF IndexIn(LowerLetters, c) > 0 THEN ch(UpperLetters, IndexIn(LowerLetters, c)) ELSE c

LowerChar(c) ==
    IF IndexIn(UpperLetters, c) > 0 THEN ch(LowerLetters, IndexIn(UpperLetters, c)) ELSE c

\* str.upper() and str.lower() over the ASCII alphabet.
RECURSIVE Upper(_)
Upper(s) == IF s = "" THEN "" ELSE UpperChar(ch(s, 1)) \o Upper(SubSeq(s, 2, Len(s)))

RECURSIVE Lower(_)
Lower(s) == IF s = "" THEN "" ELSE LowerChar(ch(s, 1)) \o Lower(SubSeq(s, 2, Len(s)))

\* \s of the re module (ASCII whitespace) and what str.strip() removes.
IsSpace(c) == c \in {" ", "\t", "\n", "\r", "\f"}

\* \w of the re module over ASCII text.
IsWordChar(c) ==
    c # "" /\ (IndexIn(LowerLetters, c) > 0 \/ IndexIn(UpperLetters, c) > 0
               \/ IndexIn(Digits, c) > 0 \/ c = "_")

RECURSIVE LStrip(_)
LStrip(s) == IF s # "" /\ IsSpace(ch(s, 1)) THEN LStrip(SubSeq(s, 2, Len(s))) ELSE s

RECURSIVE RStrip(_)
RStrip(s) == IF s # "" /\ IsSpace(ch(s, Len(s))) THEN RStrip(SubSeq(s, 1, Len(s) - 1)) ELSE s

\* str.strip()
Strip(s) == RStrip(LStrip(s))

\* The literal lit occurs in s starting at position i.
MatchAt(s, i, lit) == i >= 1 /\ i + Len(lit) - 1 <= Len(s) /\ SubSeq(s, i, i + Len(lit) - 1) = lit

\* Python's `lit in s`.
Contains(s, lit) == \E i \in 1..(Len(s) + 1) : MatchAt(s, i, lit)

\* str.startswith
StartsWith(s, lit) == MatchAt(s, 1, lit)

\* \b of the re module between positions i-1 and i.
WordBoundary(s, i) == IsWordChar(ch(s, i - 1)) # IsWordChar(ch(s, i))

\* re.search(r'\bKW\b', s)
SearchWord(s, kw) ==
    \E i \in 1..Len(s) : MatchAt(s, i, kw) /\ WordBoundary(s, i) /\ WordBoundary(s, i + Len(kw))

\* Positions i..j-1 of s are all whitespace (the \s* and \s+ of a pattern).
AllSpace(s, i, j) == \A k \in i..(j - 1) : IsSpace(ch(s, k))

\* Positions i..j-1 of s hold no line break (what `.*` can cross).
NoNewline(s, i, j) == \A k \in i..(j - 1) : ch(s, k) # "\n"

\* re.search(first + r'\s*' + second, s) for literals first, second.
SearchSpaced(s, first, second) ==
    \E i \in 1..Len(s) :
        /\ MatchAt(s, i, first)
        /\ \E j \in (i + Len(first))..(Len(s) + 1) :
              AllSpace(s, i + Len(first), j) /\ MatchAt(s, j, second)

\* re.search(a + r'.*' + b, s) for literals a, b.
SearchDotStar2(s, a, b) ==
    \E i \in 1..Len(s) :
        /\ MatchAt(s, i, a)
        /\ \E j \in (i + Len(a))..(Len(s) + 1) :
              MatchAt(s, j, b) /\ NoNewline(s, i + Len(a), j)

\* re.search(a + r'.*' + b + r'.*' + c + r'.*' + d, s) for literals a..d.
SearchDotStar4(s, a, b, c, d) ==
    \E i \in 1..Len(s) :
        /\ MatchAt(s, i, a)
        /\ \E j \in (i + Len(a))..(Len(s) + 1) :
              /\ MatchAt(s, j, b) /\ NoNewline(s, i + Len(a), j)
              /\ \E k \in (j + Len(b))..(Len(s) + 1) :
                    /\ MatchAt(s, k, c) /\ NoNewline(s, j + Len(b), k)
                    /\ \E l \in (k + Len(c))..(Len(s) + 1) :
                          MatchAt(s, l, d) /\ NoNewline(s, k + Len(c), l)

\* f"{n}" for a natural number n.
RECURSIVE IntToStr(_)
IntToStr(n) == IF n < 10 THEN ch(Digits, n + 1) ELSE IntToStr(n \div 10) \o ch(Digits, (n % 10) + 1)

\* The number a text of decimal digits denotes.
RECURSIVE StrToInt(_)
StrToInt(s) ==
    IF s = "" THEN 0 ELSE 10 * StrToInt(SubSeq(s, 1, Len(s) - 1)) + (IndexIn(Digits, ch(s, Len(s))) - 1)

(***************************************************************************)
(* SQLAPIConfig                                                            *)
(***************************************************************************)

MAX_ROWS_RETURNED == 10000

CACHE_TTL_DEFAULT == 1800

BLOCKED_KEYWORDS ==
    {"DROP", "DELETE", "TRUNCATE", "ALTER", "CREATE", "INSERT",
     "UPDATE", "GRANT", "REVOKE", "VACUUM", "ANALYZE", "COPY",
     "IMPORT", "EXPORT", "BACKUP", "RESTORE"}

ALLOWED_FUNCTIONS ==
    {"COUNT", "SUM", "AVG", "MIN", "MAX", "COALESCE", "NULLIF",
     "EXTRACT", "DATE_TRUNC", "NOW", "CURRENT_TIMESTAMP",
     "SUBSTRING", "LENGTH", "LOWER", "UPPER", "TRIM", "CONCAT",
     "ROUND", "FLOOR", "CEIL", "ABS", "GREATEST", "LEAST"}

ALLOWED_TABLES ==
    {"users", "companies", "jobs", "candidates", "applications",
     "interviews", "notifications", "ml_models", "predictions",
     "skill_extractions", "training_datasets"}

(***************************************************************************)
(* validate_sql_security                                                   *)
(***************************************************************************)

\* The blocked keywords matched only when the text starts with them.
BlockedKeywordsAtStart(query_upper) ==
    {keyword \in BLOCKED_KEYWORDS :
        MatchAt(query_upper, 1, keyword) /\ WordBoundary(query_upper, 1 + Len(keyword))}

\* The blocked keywords that re.search(rf'\b{keyword}\b', query_upper) finds.
BlockedKeywordsFound(query_upper) ==
    {keyword \in BLOCKED_KEYWORDS : SearchWord(query_upper, keyword)}

\* Check 1: a blocked keyword as a whole word of the upper-cased text.
BlockedKeywordHit(query_upper) == BlockedKeywordsFound(query_upper) # {}

\* InvalidQueryType looking for SELECT or WITH anywhere in the text.
InvalidQueryTypeAnywhere(query_upper) ==
    ~(Contains(query_upper, "SELECT") \/ Contains(query_upper, "WITH"))

\* Check 2: only SELECT and WITH statements.
InvalidQueryType(query_upper) ==
    ~(StartsWith(query_upper, "SELECT") \/ StartsWith(query_upper, "WITH"))

\* suspicious_patterns, in list order.
SuspiciousPatterns ==
    <<";\\s*(DROP|DELETE|UPDATE|INSERT)",
      "UNION.*SELECT.*FROM.*INFORMATION_SCHEMA",
      "\\/\\*.*\\*\\/",
      "--.*",
      "xp_cmdshell",
      "sp_executesql",
      "EXEC\\s*\\(",
      "EXECUTE\\s*\\(">>

\* re.search(suspicious_patterns[i], query_upper)
PatternMatches(i, query_upper) ==
    CASE i = 1 -> \E kw \in {"DROP", "DELETE", "UPDATE", "INSERT"} : SearchSpaced(query_upper, ";", kw)
      [] i = 2 -> SearchDotStar4(query_upper, "UNION", "SELECT", "FROM", "INFORMATION_SCHEMA")
      [] i = 3 -> SearchDotStar2(query_upper, "/*", "*/")
      [] i = 4 -> Contains(query_upper, "--")
      [] i = 5 -> Contains(query_upper, "xp_cmdshell")
      [] i = 6 -> Contains(query_upper, "sp_executesql")
      [] i = 7 -> SearchSpaced(query_upper, "EXEC", "(")
      [] i = 8 -> SearchSpaced(query_upper, "EXECUTE", "(")

\* Check 3: the eight suspicious patterns, searched in the upper-cased text.
SuspiciousPatternHit(query_upper) ==
    \E i \in 1..Len(SuspiciousPatterns) : PatternMatches(i, query_upper)

\* The first pattern of the list that matches.
FirstPattern(query_upper) ==
    SuspiciousPatterns[CHOOSE i \in 1..Len(SuspiciousPatterns) :
        /\ PatternMatches(i, query_upper)
        /\ \A j \in 1..(i - 1) : ~PatternMatches(j, query_upper)]

\* End (exclusive) of the longest run of \w characters of s starting at i.
RECURSIVE WordEnd(_, _)
WordEnd(s, i) == IF IsWordChar(ch(s, i)) THEN WordEnd(s, i + 1) ELSE i

\* End (exclusive) of the longest run of \s characters of s starting at i.
RECURSIVE SpaceEnd(_, _)
SpaceEnd(s, i) == IF IsSpace(ch(s, i)) THEN SpaceEnd(s, i + 1) ELSE i

\* re.findall(r'FROM\s+(\w+)', s) scanning from position i: the captured names
\* of the non-overlapping matches, left to right.
RECURSIVE FindTables(_, _)
FindTables(s, i) ==
    IF i > Len(s) THEN {}
    ELSE IF /\ MatchAt(s, i, "FROM")
            /\ SpaceEnd(s, i + 4) > i + 4
            /\ WordEnd(s, SpaceEnd(s, i + 4)) > SpaceEnd(s, i + 4)
         THEN {SubSeq(s, SpaceEnd(s, i + 4), WordEnd(s, SpaceEnd(s, i + 4)) - 1)}
                  \cup FindTables(s, WordEnd(s, SpaceEnd(s, i + 4)))
         ELSE FindTables(s, i + 1)

\* Check 4: a table after FROM that is not allow-listed.
DisallowedTable(query_upper) ==
    \E table \in FindTables(query_upper, 1) : Lower(table) \notin ALLOWED_TABLES

\* The reason of the first failing check, "" when the query is allowed.
RejectionReason(query) ==
    LET query_upper == Strip(Upper(query)) IN
    IF BlockedKeywordHit(query_upper) THEN "blocked_keyword"
    ELSE IF InvalidQueryType(query_upper) THEN "invalid_query_type"
    ELSE IF SuspiciousPatternHit(query_upper) THEN "suspicious_pattern"
    ELSE IF DisallowedTable(query_upper) THEN "table_not_allowed"
    ELSE ""

validate_sql_security(query) == RejectionReason(query) = ""

\* re.findall(r'FROM\s+(\w+)', s) as the list it is, scanning from position i.
RECURSIVE FindTablesSeq(_, _)
FindTablesSeq(s, i) ==
    IF i > Len(s) THEN <<>>
    ELSE IF /\ MatchAt(s, i, "FROM")
            /\ SpaceEnd(s, i + 4) > i + 4
            /\ WordEnd(s, SpaceEnd(s, i + 4)) > SpaceEnd(s, i + 4)
         THEN <<SubSeq(s, SpaceEnd(s, i + 4), WordEnd(s, SpaceEnd(s, i + 4)) - 1)>>
                  \o FindTablesSeq(s, WordEnd(s, SpaceEnd(s, i + 4)))
         ELSE FindTablesSeq(s, i + 1)

\* The first table of the list that is not allow-listed.
RECURSIVE FirstDisallowedTable(_)
FirstDisallowedTable(tables) ==
    IF Lower(Head(tables)) \notin ALLOWED_TABLES THEN Head(tables)
    ELSE FirstDisallowedTable(Tail(tables))

\* query_upper[:20]
First20(query_upper) ==
    IF Len(query_upper) <= 20 THEN query_upper ELSE SubSeq(query_upper, 1, 20)

\* The warnings logged were the suspicious patterns searched before the
\* blocked keywords.
ValidationLogsPatternFirst(query) ==
    LET query_upper == Strip(Upper(query)) IN
    IF SuspiciousPatternHit(query_upper)
    THEN {"Suspicious pattern detected: " \o FirstPattern(query_upper)}
    ELSE IF BlockedKeywordHit(query_upper)
    THEN {"Blocked keyword detected: " \o keyword : keyword \in BlockedKeywordsFound(query_upper)}
    ELSE IF InvalidQueryType(query_upper)
    THEN {"Invalid query type: " \o First20(query_upper) \o "..."}
    ELSE IF DisallowedTable(query_upper)
    THEN {"Access to table '" \o FirstDisallowedTable(FindTablesSeq(query_upper, 1)) \o "' not allowed"}
    ELSE {}

\* The warnings validate_sql_security can log for a query ({} when it returns
\* True).  BLOCKED_KEYWORDS is a set, iterated in no fixed order: any of the
\* keywords found can be the one the loop meets first.
ValidationLogs(query) ==
    LET query_upper == Strip(Upper(query)) IN
    IF BlockedKeywordHit(query_upper)
    THEN {"Blocked keyword detected: " \o keyword : keyword \in BlockedKeywordsFound(query_upper)}
    ELSE IF InvalidQueryType(query_upper)
    THEN {"Invalid query type: " \o First20(query_upper) \o "..."}
    ELSE IF SuspiciousPatternHit(query_upper)
    THEN {"Suspicious pattern detected: " \o FirstPattern(query_upper)}
    ELSE IF DisallowedTable(query_upper)
    THEN {"Access to table '" \o FirstDisallowedTable(FindTablesSeq(query_upper, 1)) \o "' not allowed"}
    ELSE {}

(***************************************************************************)
(* generate_query_hash                                                     *)
(***************************************************************************)

\* The characters of identifiers in code-point order (the order sorted()
\* compares str keys by).
Ascii == "0123456789ABCDEFGHIJKLMNOPQRSTUVWXYZ_abcdefghijklmnopqrstuvwxyz"

\* a < b for Python str.
RECURSIVE StrLess(_, _)
StrLess(a, b) ==
    IF b = "" THEN FALSE
    ELSE IF a = "" THEN TRUE
    ELSE IF ch(a, 1) = ch(b, 1) THEN StrLess(SubSeq(a, 2, Len(a)), SubSeq(b, 2, Len(b)))
    ELSE IndexIn(Ascii, ch(a, 1)) < IndexIn(Ascii, ch(b, 1))

\* A parameter mapping is a dict: the sequence of its items [k, v] in insertion
\* order, keys unique.  A value is [t |-> its type, v |-> its text].
RECURSIVE InsertByKey(_, _)
InsertByKey(item, sorted) ==
    IF sorted = <<>> THEN <<item>>
    ELSE IF StrLess(item.k, Head(sorted).k) THEN <<item>> \o sorted
    ELSE <<Head(sorted)>> \o InsertByKey(item, Tail(sorted))

\* sorted(parameters.items()) as json.dumps(sort_keys=True) orders them.
RECURSIVE SortItems(_)
SortItems(items) == IF items = <<>> THEN <<>> ELSE InsertByKey(Head(items), SortItems(Tail(items)))

\* JsonValue writing a str without its quotes.
JsonValueBare(val) == val.v

\* json.dumps of one JSON-native value.
JsonValue(val) ==
    IF val.t = "str" THEN "\"" \o val.v \o "\"" ELSE val.v

RECURSIVE JsonItems(_)
JsonItems(items) ==
    IF items = <<>> THEN ""
    ELSE "\"" \o Head(items).k \o "\": " \o JsonValue(Head(items).v)
         \o (IF Len(items) > 1 THEN ", " ELSE "") \o JsonItems(Tail(items))

\* json.dumps(parameters, sort_keys=True)
JsonDumpsSorted(parameters) == "{" \o JsonItems(SortItems(parameters)) \o "}"

\* hashlib.md5(text).hexdigest(), taken as a collision-free digest of the text.
Md5Hex(text) == "md5(" \o text \o ")"

\* generate_query_hash with json.dumps(parameters) in insertion order.
HashUnsorted(query, parameters) ==
    Md5Hex(query \o ":" \o "{" \o JsonItems(parameters) \o "}")

generate_query_hash(query, parameters) ==
    Md5Hex(query \o ":" \o JsonDumpsSorted(parameters))

\* cache_key = f"sql_query:{query_hash}"
CacheKey(query_hash) == "sql_query:" \o query_hash

\* list(parameters.values()): the values in insertion order.
ParamValues(parameters) == [i \in 1..Len(parameters) |-> parameters[i].v]

(***************************************************************************)
(* Values and their JSON conversion                                        *)
(***************************************************************************)

\* A cell of a row is [t |-> its Python type, v |-> its str() text].
\* `data`, a list of row dicts, is kept as its length and the cell its rows
\* hold (len = 0: no row, cell = NoCell).
NoCell == [t |-> "NoneType", v |-> "None"]

NoData == [len |-> 0, cell |-> NoCell]

\* The types json.dumps writes as numbers without calling `default`.
JsonNumberTypes == {"int", "float"}

\* json.dumps(cell, default=str): the JSON text of one cell.  A value json
\* cannot write (datetime, Decimal, UUID) is replaced by str(value), which is
\* then written as a JSON string.
JsonDumpsCell(cell) ==
    IF cell.t = "NoneType" THEN "null"
    ELSE IF cell.t \in JsonNumberTypes THEN cell.v
    ELSE "\"" \o cell.v \o "\""

\* json.loads of the JSON text of one cell.
JsonLoadsCell(text) ==
    IF text = "null" THEN NoCell
    ELSE IF ch(text, 1) = "\"" THEN [t |-> "str", v |-> SubSeq(text, 2, Len(text) - 1)]
    ELSE IF Contains(text, ".") THEN [t |-> "float", v |-> text]
    ELSE [t |-> "int", v |-> text]

\* json.dumps(response_data, default=str): the payload stored in the cache.
\* A payload is a text: `form` tells whether it is a JSON object, the empty
\* text or a text json.loads refuses, and `missing` which keys an object
\* lacks.  What json.dumps writes is an object with every key.
JsonDumps(response_data) ==
    [form |-> "object", missing |-> {},
     data |-> [len |-> response_data.data.len, cell |-> JsonDumpsCell(response_data.data.cell)],
     row_count |-> response_data.row_count,
     cached |-> response_data.cached,
     explain_plan |-> response_data.explain_plan,
     query_hash |-> response_data.query_hash]

\* The fields of SQLResponse that have no default and that the cached branch
\* does not set itself (it sets cached and timestamp).
RequiredFields == {"data", "row_count", "execution_time_ms", "query_hash"}

\* `if cached_result`: the payload is not the empty text.
Truthy(payload) == payload.form # "empty"

\* json.loads(cached_result) and SQLResponse(**result) both return.
Decodable(payload) == payload.form = "object" /\ payload.missing \cap RequiredFields = {}

\* json.loads(cached_result)
JsonLoads(payload) ==
    [data |-> [len |-> payload.data.len, cell |-> JsonLoadsCell(payload.data.cell)],
     row_count |-> payload.row_count,
     cached |-> payload.cached,
     explain_plan |-> payload.explain_plan,
     query_hash |-> payload.query_hash]

(***************************************************************************)
(* The store (PostgreSQL behind asyncpg)                                   *)
(***************************************************************************)

\* Start of the run of digits that ends the text s (Len(s) + 1: none).
RECURSIVE DigitsStart(_, _)
DigitsStart(s, i) ==
    IF i >= 1 /\ IndexIn(Digits, ch(s, i)) > 0 THEN DigitsStart(s, i - 1) ELSE i + 1

\* Start of the run of whitespace that ends at position i of s.
RECURSIVE SpaceStart(_, _)
SpaceStart(s, i) == IF i >= 1 /\ IsSpace(ch(s, i)) THEN SpaceStart(s, i - 1) ELSE i + 1

\* The row limit of a statement that ends in a clause LIMIT <n> (keywords in
\* any case), -1 when it ends in none.
StoreLimit(statement) ==
    LET u == RStrip(Upper(statement))
        d == DigitsStart(u, Len(u))
        w == SpaceStart(u, d - 1)
    IN  IF /\ d <= Len(u)
           /\ w < d
           /\ MatchAt(u, w - 5, "LIMIT")
           /\ ~IsWordChar(ch(u, w - 6))
        THEN StrToInt(SubSeq(u, d, Len(u)))
        ELSE -1

\* How many rows the store returns for a statement over a table of table_rows rows.
StoreRowsReturned(statement, table_rows) ==
    IF StoreLimit(statement) >= 0 /\ StoreLimit(statement) < table_rows
    THEN StoreLimit(statement)
    ELSE table_rows

\* Sizes of the table a query reads, and what its rows hold.
TableRowCounts == {0, 20000}

CellValues == {[t |-> "int", v |-> "42"], [t |-> "datetime", v |-> "2024-01-15 10:30:00"]}

\* What conn.fetch returns for a statement.
FetchResults(statement) ==
    {[len |-> StoreRowsReturned(statement, n), cell |-> IF StoreRowsReturned(statement, n) = 0 THEN NoCell ELSE c] :
        n \in TableRowCounts, c \in CellValues}

\* The messages of the exceptions a statement sent to the store raises.
StoreErrors == {"connection was closed", "canceling statement due to statement timeout"}

\* The messages of the exceptions create_pool and pool.acquire raise.
PoolErrors == {"connection refused"}

\* create_pool(command_timeout=60): asyncpg abandons a statement after this
\* many seconds and raises TimeoutError, whose str() is empty.
COMMAND_TIMEOUT == 60

\* How many seconds the store takes over the data query of a request: a slow
\* statement, within command_timeout or beyond it.
StoreDurations == {40, 90}

\* The public schema of the store: its tables (the catalog holds names as
\* they were created, so "Users" and "users" are two tables), its views, its
\* routines and its indexes.
StoreTables == {"users", "jobs", "Users", "audit_log"}

StoreViews == {"salary_report"}

StoreFunctions == {"reset_passwords"}

StoreIndexes ==
    {[indexname |-> "users_pkey", tablename |-> "users"],
     [indexname |-> "audit_log_pkey", tablename |-> "audit_log"]}

\* The rows of the four statements of get_schema_info: tables and indexes
\* are restricted by `= ANY($1)` to ALLOWED_TABLES, views and routines by the
\* schema only.
SchemaRows ==
    [tables |-> {t \in StoreTables : t \in ALLOWED_TABLES},
     views |-> StoreViews,
     functions |-> StoreFunctions,
     indexes |-> {i \in StoreIndexes : i.tablename \in ALLOWED_TABLES}]

\* What the statements of get_table_schema, bound to $1 = table_name,
\* return: the description of the table of exactly that name, if any.
TableRows(table_name) == [table_name |-> table_name, found |-> table_name \in StoreTables]

\* What conn.fetchval returns for EXPLAIN (FORMAT JSON): the plan, taken to
\* be of the structured type SQLResponse.explain_plan declares.
ExplainResult(statement) == "[{\"Plan\": \"EXPLAIN (FORMAT JSON) " \o statement \o "\"}]"

(***************************************************************************)
(* Requests                                                                *)
(***************************************************************************)

\* Number of requests of a run.
NReq == 2

ReqIds == 1..NReq

MAX_QUERY_LENGTH == 10000

\* SQLQuery.timeout: Optional[int] = 30
DEFAULT_TIMEOUT == 30

\* The SQLQuery bodies clients send to POST /query.
Requests ==
    {[query |-> "SELECT * FROM users", parameters |-> <<>>, cache_ttl |-> 1800, explain |-> FALSE,
      timeout |-> DEFAULT_TIMEOUT],
     [query |-> " SELECT * FROM users ", parameters |-> <<>>, cache_ttl |-> 0, explain |-> TRUE,
      timeout |-> 5],
     [query |-> "SELECT * FROM users LIMIT 20000", parameters |-> <<>>, cache_ttl |-> 1800, explain |-> FALSE,
      timeout |-> DEFAULT_TIMEOUT],
     [query |-> "SELECT credit_limit FROM jobs", parameters |-> <<>>, cache_ttl |-> 1800, explain |-> FALSE,
      timeout |-> DEFAULT_TIMEOUT],
     [query |-> "SELECT * FROM users; DROP TABLE users", parameters |-> <<>>, cache_ttl |-> 1800, explain |-> FALSE,
      timeout |-> DEFAULT_TIMEOUT]}

\* SQLQuery bodies with two parameters, written by the clients in either order.
BoundRequests ==
    {[query |-> "SELECT * FROM users WHERE id = $1 AND age = $2",
      parameters |-> <<[k |-> "id", v |-> [t |-> "int", v |-> "5"]],
                       [k |-> "age", v |-> [t |-> "int", v |-> "30"]]>>,
      cache_ttl |-> 1800, explain |-> FALSE, timeout |-> DEFAULT_TIMEOUT],
     [query |-> "SELECT * FROM users WHERE id = $1 AND age = $2",
      parameters |-> <<[k |-> "age", v |-> [t |-> "int", v |-> "30"]],
                       [k |-> "id", v |-> [t |-> "int", v |-> "5"]]>>,
      cache_ttl |-> 1800, explain |-> FALSE, timeout |-> DEFAULT_TIMEOUT]}

\* The bearer credentials requests carry; /health is called with none.
Tokens == {"invalid", "eyJhbGciOiJIUzI1NiJ9"}

\* verify_token accepting every token.
VerifyTokenLax(token) == TRUE

\* verify_token: raises 401 for an empty token and for "invalid".
verify_token(token) == ~(token = "" \/ token = "invalid")

\* The names clients ask GET /table/{table_name} for.
TableNames == {"users", "Users", "secret_table"}

\* SQLQuery.validate_query: the body is refused when the query is blank or too long.
QueryFieldValid(v) == Strip(v) # "" /\ Len(v) <= MAX_QUERY_LENGTH

\* SQLQuery as the handler receives it: validate_query returns v.strip().
SQLQuery(body) == [body EXCEPT !.query = Strip(body.query)]

NoPlan == "None"

\* SQLResponse fields (execution_time_ms and timestamp, which are clock
\* readings, are left out).
NoBody == [data |-> NoData, row_count |-> 0, cached |-> FALSE, explain_plan |-> NoPlan, query_hash |-> ""]

NoPayload == JsonDumps(NoBody)

\* What redis_client.get returns for a key that holds nothing.
NoValue == ""

\* int(value or 0): an absent key reads 0, a text of digits its number.
ReadCounter(value) == IF value = NoValue THEN 0 ELSE StrToInt(value)

RECURSIVE DotIndex(_, _)
DotIndex(s, i) == IF i > Len(s) THEN 0 ELSE IF ch(s, i) = "." THEN i ELSE DotIndex(s, i + 1)

\* float(value or 0), in hundredths: the text has at most two decimals.
ReadFloat(value) ==
    IF value = NoValue THEN 0
    ELSE LET d == DotIndex(value, 1)
             decimals == SubSeq(value, d + 1, Len(value))
         IN  IF d = 0 THEN 100 * StrToInt(value)
             ELSE 100 * StrToInt(SubSeq(value, 1, d - 1))
                    + (IF Len(decimals) = 1 THEN 10 * StrToInt(decimals) ELSE StrToInt(decimals))

\* round(num / den, 2) in hundredths, num being in hundredths already: the
\* nearest hundredth; at an exact tie either neighbour, since which one
\* round() returns depends on the binary float the quotient became.
Round2(num, den) ==
    {h \in {num \div den, (num \div den) + 1} :
        2 * h * den - 2 * num <= den /\ 2 * num - 2 * h * den <= den}

\* avg_execution_time as line 420 computes it and line 429 rounds it.
AvgExecutionTime(total_execution_time, total_queries) ==
    IF total_queries > 0 THEN Round2(total_execution_time, total_queries) ELSE {0}

\* cache_hit_rate as line 421 computes it and line 431 rounds it.
CacheHitRate(cached_queries, total_queries) ==
    IF total_queries > 0 THEN Round2(100 * 100 * cached_queries, total_queries) ELSE {0}

\* QueryStats fields (slow_queries is always empty); the two derived
\* metrics are in hundredths.
NoStats == [total_queries |-> 0, cached_queries |-> 0, avg_execution_time |-> 0, cache_hit_rate |-> 0]

NoResponse == [status |-> 0, detail |-> "", body |-> NoBody, stats |-> NoStats]

NoRequest == [query |-> "", parameters |-> <<>>, cache_ttl |-> 0, explain |-> FALSE, timeout |-> 0]

\* SchemaInfo: the names each listing holds (an index with its table).
NoSchemaInfo == [tables |-> {}, views |-> {}, functions |-> {}, indexes |-> {}]

\* TableSchema: the table described and whether the store knows it.
NoTableSchema == [table_name |-> "", found |-> FALSE]

\* A request before it is sent.
IdleRequest ==
    [endpoint |-> "", token |-> "", table_name |-> "", waited |-> 0,
     schema_info |-> NoSchemaInfo, table_schema |-> NoTableSchema,
     pc |-> "Idle", sql_query |-> NoRequest, query_hash |-> "",
     cached_result |-> NoPayload, limited_query |-> "", data |-> NoData, explain_plan |-> NoPlan,
     response_data |-> NoBody, response |-> NoResponse, conn |-> FALSE,
     get_outcome |-> "none", set_outcome |-> "none", store_error |-> "",
     n_cache_get |-> 0, n_cache_set |-> 0, n_acquire |-> 0, n_fetch |-> 0, n_statement |-> 0,
     bound |-> <<>>]

(***************************************************************************)
(* Direct calls of the pure functions                                      *)
(***************************************************************************)

\* The two calls of generate_query_hash that are compared.
HashCallIds == {1, 2}

\* A call of generate_query_hash that has not been made.
NoHashCall == [query |-> "", parameters |-> <<>>, result |-> "", done |-> FALSE]

\* A call of validate_sql_security that has not been made.  `sample` is how
\* the text was written (see ValidatorSamples); `log` is the warning logged.
NoSample == [query |-> "", kind |-> "none", keywords |-> {}, tables |-> {}, pattern |-> ""]

NoValidation == [sample |-> NoSample, result |-> FALSE, log |-> "", done |-> FALSE]

VARIABLES
    reqs,            \* request id -> the request's position and local variables
    cache,           \* the Redis db: a set of entries [key, payload, ttl]
    cache_down,      \* TRUE: the cache service is down for the whole run
    db_pool,         \* the global db_pool: 0 is None, else the id of the pool
    pools_created,   \* how many pools asyncpg.create_pool has made
    stats,           \* the sql_stats:* counters in Redis
    hashed,          \* direct calls of generate_query_hash: arguments and result
    validated        \* a direct call of validate_sql_security: argument, result, log

vars == <<reqs, cache, cache_down, db_pool, pools_created, stats, hashed, validated>>

Init ==
    /\ reqs = [r \in ReqIds |-> IdleRequest]
    /\ cache = {}
    /\ cache_down \in BOOLEAN
    /\ db_pool = 0
    /\ pools_created = 0
    /\ stats = [total_queries |-> NoValue, cached_queries |-> NoValue, total_execution_time |-> NoValue]
    /\ hashed = [i \in HashCallIds |-> NoHashCall]
    /\ validated = NoValidation

\* Where a request has ended.
Terminal ==
    {"Responded", "Rejected", "ExecutionFailed", "StatsResponded", "StatsFailed",
     "Unauthorized", "Denied", "Served", "Failed"}

\* A cache call may succeed unless the service is down for the run; it may
\* raise at any time (a down or unreachable service).
CacheCallOutcomes == IF cache_down THEN {"raise"} ELSE {"ok", "raise"}

\* redis_client.get(cache_key): the entries stored under the key (none or one).
CacheGetResult(key) == {e \in cache : e.key = key}

\* ExecutionFailed were the connection not released when the exception
\* leaves the `async with` block.
ExecutionFailedHolding(req, e) ==
    [req EXCEPT !.pc = "ExecutionFailed",
                !.store_error = e,
                !.response = [status |-> 400,
                              detail |-> "Query execution failed: " \o e,
                              body |-> NoBody, stats |-> NoStats]]

\* raise HTTPException(400, "Query execution failed: ...") of the except
\* clause around the execution, for the exception e; the connection, if one
\* is held, is released by `async with`.
ExecutionFailed(req, e) ==
    [req EXCEPT !.pc = "ExecutionFailed",
                !.conn = FALSE,
                !.store_error = e,
                !.response = [status |-> 400,
                              detail |-> "Query execution failed: " \o e,
                              body |-> NoBody, stats |-> NoStats]]

\* ExecutionFailed for asyncpg's TimeoutError: str(e) is empty.
ExecutionTimedOut(req) ==
    [req EXCEPT !.pc = "ExecutionFailed",
                !.conn = FALSE,
                !.store_error = "TimeoutError",
                !.response = [status |-> 400,
                              detail |-> "Query execution failed: ",
                              body |-> NoBody, stats |-> NoStats]]

\* The except clauses of /schema, /table and /health: any exception is
\* logged and answered with a fixed detail; the connection, if one is held,
\* is released by `async with`.
EndpointFailed(req, e) ==
    [req EXCEPT !.pc = "Failed",
                !.conn = FALSE,
                !.store_error = e,
                !.response = [status |-> IF req.endpoint = "health" THEN 503 ELSE 500,
                              detail |-> CASE req.endpoint = "health" -> "Service unavailable"
                                           [] req.endpoint = "schema" -> "Failed to retrieve schema information"
                                           [] OTHER -> "Failed to retrieve table schema",
                              body |-> NoBody, stats |-> NoStats]]

\* An exception raised inside the try block of the request's handler.
Raised(req, e) ==
    IF req.endpoint = "query" THEN ExecutionFailed(req, e) ELSE EndpointFailed(req, e)

\* raise HTTPException(401, ...) of verify_token.
Unauthorized(req) ==
    [req EXCEPT !.pc = "Unauthorized",
                !.response = [status |-> 401, detail |-> "Invalid authentication token",
                              body |-> NoBody, stats |-> NoStats]]

\* raise HTTPException(403, ...) of get_table_schema.
AccessDenied(req) ==
    [req EXCEPT !.pc = "Denied",
                !.response = [status |-> 403, detail |-> "Access to this table is not allowed",
                              body |-> NoBody, stats |-> NoStats]]

\* raise HTTPException(400, ...) of the security validation.
SecurityRejected(req) ==
    [req EXCEPT !.pc = "Rejected",
                !.response = [status |-> 400,
                              detail |-> "Query not allowed for security reasons",
                              body |-> NoBody, stats |-> NoStats]]

\* limited_query: the row limit added for safety.
LimitedQuery(query) ==
    IF ~Contains(Upper(query), "LIMIT")
    THEN query \o " LIMIT " \o IntToStr(MAX_ROWS_RETURNED)
    ELSE query

\* response_data of a request whose execution has ended.
ResponseData(req) ==
    [data |-> req.data,
     row_count |-> req.data.len,
     cached |-> FALSE,
     explain_plan |-> req.explain_plan,
     query_hash |-> req.query_hash]

\* CachedResponse without result["cached"] = True.
CachedResponseUnflagged(cached_result) ==
    [status |-> 200, detail |-> "", body |-> JsonLoads(cached_result), stats |-> NoStats]

\* The response of a cache hit: the decoded payload with cached set.
CachedResponse(cached_result) ==
    [status |-> 200, detail |-> "",
     body |-> [JsonLoads(cached_result) EXCEPT !.cached = TRUE], stats |-> NoStats]

\* The response of an execution: SQLResponse(**response_data).
FreshResponse(response_data) ==
    [status |-> 200, detail |-> "", body |-> response_data, stats |-> NoStats]

\* cache_ttl = sql_query.cache_ttl or SQLAPIConfig.CACHE_TTL_DEFAULT
CacheTtl(sql_query) == IF sql_query.cache_ttl # 0 THEN sql_query.cache_ttl ELSE CACHE_TTL_DEFAULT

\* The query texts the handler can receive.  The functions of a text that
\* the steps below need are evaluated once per text and looked up.
QueryTexts ==
    {SQLQuery(body).query : body \in {b \in Requests \cup BoundRequests : QueryFieldValid(b.query)}}

SecurityVerdict == [query \in QueryTexts |-> validate_sql_security(query)]

LimitedQueryOf == [query \in QueryTexts |-> LimitedQuery(query)]

FetchResultsOf == [query \in QueryTexts |-> FetchResults(LimitedQuery(query))]

(***************************************************************************)
(* POST /query, one action per step between two suspension points          *)
(***************************************************************************)

\* A client sends POST /query with one of `bodies`; FastAPI runs verify_token,
\* builds the SQLQuery and calls the handler.
SubmitFrom(r, bodies) ==
    /\ reqs[r].pc = "Idle"
    /\ IF r = 1 THEN TRUE ELSE reqs[r - 1].pc # "Idle"
    /\ \E token \in Tokens :
          IF ~verify_token(token)
          THEN reqs' = [reqs EXCEPT ![r] =
                   Unauthorized([@ EXCEPT !.endpoint = "query", !.token = token])]
          ELSE \E body \in bodies :
                  /\ QueryFieldValid(body.query)
                  /\ reqs' = [reqs EXCEPT ![r] =
                        [@ EXCEPT !.endpoint = "query", !.token = token, !.pc = "Received",
                                  !.sql_query = SQLQuery(body)]]
    /\ UNCHANGED <<cache, cache_down, db_pool, pools_created, stats, hashed, validated>>

Submit(r) == SubmitFrom(r, Requests)

\* The same with a body that carries parameters.
SubmitBound(r) == SubmitFrom(r, BoundRequests)

\* Validate with the cache consulted before the security validation.
ValidateAfterLookup(r) ==
    /\ reqs[r].pc = "Received"
    /\ reqs' = [reqs EXCEPT ![r] =
          IF ~SecurityVerdict[reqs[r].sql_query.query]
          THEN SecurityRejected([@ EXCEPT !.n_cache_get = @ + 1])
          ELSE [@ EXCEPT !.pc = "Validated",
                         !.query_hash = generate_query_hash(reqs[r].sql_query.query,
                                                            reqs[r].sql_query.parameters)]]
    /\ UNCHANGED <<cache, cache_down, db_pool, pools_created, stats, hashed, validated>>

\* Security validation, then the query hash.
Validate(r) ==
    /\ reqs[r].pc = "Received"
    /\ reqs' = [reqs EXCEPT ![r] =
          IF ~SecurityVerdict[reqs[r].sql_query.query]
          THEN SecurityRejected(@)
          ELSE [@ EXCEPT !.pc = "Validated",
                         !.query_hash = generate_query_hash(reqs[r].sql_query.query,
                                                            reqs[r].sql_query.parameters)]]
    /\ UNCHANGED <<cache, cache_down, db_pool, pools_created, stats, hashed, validated>>

\* CacheGet without the try/except: an exception of the cache ends the request.
CacheGetUnguarded(r) ==
    /\ reqs[r].pc = "Validated"
    /\ \E outcome \in CacheCallOutcomes :
          LET found == CacheGetResult(CacheKey(reqs[r].query_hash)) IN
          reqs' = [reqs EXCEPT ![r] =
              IF outcome = "raise"
              THEN [@ EXCEPT !.pc = "ExecutionFailed", !.get_outcome = "error", !.n_cache_get = @ + 1,
                             !.response = [status |-> 500, detail |-> "Internal Server Error",
                                           body |-> NoBody, stats |-> NoStats]]
              ELSE IF found # {}
              THEN [@ EXCEPT !.pc = "CacheHit", !.get_outcome = "hit", !.n_cache_get = @ + 1,
                             !.cached_result = (CHOOSE e \in found : TRUE).payload]
              ELSE [@ EXCEPT !.pc = "CacheMiss", !.get_outcome = "miss", !.n_cache_get = @ + 1]]
    /\ UNCHANGED <<cache, cache_down, db_pool, pools_created, stats, hashed, validated>>

\* CacheGet taking whatever text the cache returns for a usable payload.
CacheGetUndecoded(r) ==
    /\ reqs[r].pc = "Validated"
    /\ \E outcome \in CacheCallOutcomes :
          LET found == CacheGetResult(CacheKey(reqs[r].query_hash)) IN
          reqs' = [reqs EXCEPT ![r] =
              IF outcome = "raise"
              THEN [@ EXCEPT !.pc = "CacheMiss", !.get_outcome = "error", !.n_cache_get = @ + 1]
              ELSE IF found # {}
              THEN [@ EXCEPT !.pc = "CacheHit", !.get_outcome = "hit", !.n_cache_get = @ + 1,
                             !.cached_result = (CHOOSE e \in found : TRUE).payload]
              ELSE [@ EXCEPT !.pc = "CacheMiss", !.get_outcome = "miss", !.n_cache_get = @ + 1]]
    /\ UNCHANGED <<cache, cache_down, db_pool, pools_created, stats, hashed, validated>>

\* Check cache first: redis_client.get, `if cached_result`, json.loads and
\* SQLResponse(**result) inside try/except.  A get that raises, an empty
\* payload and a payload that json.loads or SQLResponse refuses all leave
\* the handler at the execution block; get_outcome tells them apart.
CacheGet(r) ==
    /\ reqs[r].pc = "Validated"
    /\ \E outcome \in CacheCallOutcomes :
          LET found == CacheGetResult(CacheKey(reqs[r].query_hash))
              cached_result == (CHOOSE e \in found : TRUE).payload
          IN
          reqs' = [reqs EXCEPT ![r] =
              IF outcome = "raise"
              THEN [@ EXCEPT !.pc = "CacheMiss", !.get_outcome = "error", !.n_cache_get = @ + 1]
              ELSE IF found = {}
              THEN [@ EXCEPT !.pc = "CacheMiss", !.get_outcome = "miss", !.n_cache_get = @ + 1]
              ELSE IF ~Truthy(cached_result)
              THEN [@ EXCEPT !.pc = "CacheMiss", !.get_outcome = "miss", !.n_cache_get = @ + 1,
                             !.cached_result = cached_result]
              ELSE IF ~Decodable(cached_result)
              THEN [@ EXCEPT !.pc = "CacheMiss", !.get_outcome = "invalid", !.n_cache_get = @ + 1,
                             !.cached_result = cached_result]
              ELSE [@ EXCEPT !.pc = "CacheHit", !.get_outcome = "hit", !.n_cache_get = @ + 1,
                             !.cached_result = cached_result]]
    /\ UNCHANGED <<cache, cache_down, db_pool, pools_created, stats, hashed, validated>>

\* RespondCached writing the payload back under its key with a fresh TTL.
RespondCachedRefreshing(r) ==
    /\ reqs[r].pc = "CacheHit"
    /\ reqs' = [reqs EXCEPT ![r] =
          [@ EXCEPT !.pc = "Responded", !.n_cache_set = @ + 1, !.set_outcome = "ok",
                    !.response = CachedResponse(reqs[r].cached_result)]]
    /\ cache' = {e \in cache : e.key # CacheKey(reqs[r].query_hash)}
                    \cup {[key |-> CacheKey(reqs[r].query_hash), payload |-> reqs[r].cached_result,
                           ttl |-> CacheTtl(reqs[r].sql_query)]}
    /\ UNCHANGED <<cache_down, db_pool, pools_created, stats, hashed, validated>>

\* The cached payload is decoded, flagged and returned.
RespondCached(r) ==
    /\ reqs[r].pc = "CacheHit"
    /\ reqs' = [reqs EXCEPT ![r] =
          [@ EXCEPT !.pc = "Responded", !.response = CachedResponse(reqs[r].cached_result)]]
    /\ UNCHANGED <<cache, cache_down, db_pool, pools_created, stats, hashed, validated>>

\* get_db_pool up to its await: the global is read.
GetDbPool(r) ==
    /\ reqs[r].pc \in {"CacheMiss", "SchemaReceived", "TableReceived", "HealthReceived"}
    /\ reqs' = [reqs EXCEPT ![r] = [@ EXCEPT !.pc = IF db_pool = 0 THEN "PoolCreating" ELSE "PoolReady"]]
    /\ UNCHANGED <<cache, cache_down, db_pool, pools_created, stats, hashed, validated>>

\* await asyncpg.create_pool(...) returns and the global is assigned, or raises.
CreatePool(r) ==
    /\ reqs[r].pc = "PoolCreating"
    /\ \/ /\ db_pool' = pools_created + 1
          /\ pools_created' = pools_created + 1
          /\ reqs' = [reqs EXCEPT ![r] = [@ EXCEPT !.pc = "PoolReady"]]
       \/ /\ \E e \in PoolErrors : reqs' = [reqs EXCEPT ![r] = Raised(@, e)]
          /\ UNCHANGED <<db_pool, pools_created>>
    /\ UNCHANGED <<cache, cache_down, stats, hashed, validated>>

\* async with pool.acquire() as conn, then the row limit.
Acquire(r) ==
    /\ reqs[r].pc = "PoolReady"
    /\ reqs[r].endpoint = "query"
    /\ \/ reqs' = [reqs EXCEPT ![r] =
              [@ EXCEPT !.pc = "Acquired", !.conn = TRUE, !.n_acquire = @ + 1,
                        !.limited_query = LimitedQueryOf[reqs[r].sql_query.query]]]
       \/ \E e \in PoolErrors : reqs' = [reqs EXCEPT ![r] = ExecutionFailed(@, e)]
    /\ UNCHANGED <<cache, cache_down, db_pool, pools_created, stats, hashed, validated>>

\* The exceptions conn.fetch raises and the seconds the call took: an error
\* of the store, or asyncpg's TimeoutError once command_timeout has run out.
\* The timeout field of the request is not passed to conn.fetch.
FetchFailures ==
    {[e |-> e, waited |-> seconds] :
        e \in StoreErrors, seconds \in {d \in StoreDurations : d <= COMMAND_TIMEOUT}}
    \cup {[e |-> "TimeoutError", waited |-> COMMAND_TIMEOUT] :
              seconds \in {d \in StoreDurations : d > COMMAND_TIMEOUT}}

\* The request after conn.fetch raised.
FetchFailed(req, failure) ==
    IF failure.e = "TimeoutError"
    THEN ExecutionTimedOut([req EXCEPT !.n_fetch = @ + 1, !.n_statement = @ + 1,
                                       !.waited = failure.waited])
    ELSE ExecutionFailed([req EXCEPT !.n_fetch = @ + 1, !.n_statement = @ + 1,
                                     !.waited = failure.waited], failure.e)

\* Fetch that tries the statement again after a store error.
FetchRetrying(r) ==
    /\ reqs[r].pc = "Acquired"
    /\ reqs[r].endpoint = "query"
    /\ \/ \E rows \in FetchResultsOf[reqs[r].sql_query.query],
             seconds \in {d \in StoreDurations : d <= COMMAND_TIMEOUT} :
             reqs' = [reqs EXCEPT ![r] =
                 [@ EXCEPT !.pc = "Fetched", !.data = rows, !.waited = seconds,
                           !.n_fetch = @ + 1, !.n_statement = @ + 1]]
       \/ /\ reqs[r].n_fetch = 0
          /\ reqs' = [reqs EXCEPT ![r] = [@ EXCEPT !.n_fetch = @ + 1, !.n_statement = @ + 1]]
       \/ /\ reqs[r].n_fetch > 0
          /\ \E failure \in FetchFailures :
                reqs' = [reqs EXCEPT ![r] = FetchFailed(@, failure)]
    /\ UNCHANGED <<cache, cache_down, db_pool, pools_created, stats, hashed, validated>>

\* rows = await conn.fetch(limited_query, ...); data = [dict(row) for row in rows]
\* conn.fetch(limited_query, *sql_query.parameters.values()): the values are
\* bound to $1, $2, ... in the order the mapping holds them.  The call
\* returns when the store has answered, however long that takes within
\* command_timeout.
Fetch(r) ==
    /\ reqs[r].pc = "Acquired"
    /\ reqs[r].endpoint = "query"
    /\ \/ \E rows \in FetchResultsOf[reqs[r].sql_query.query],
             seconds \in {d \in StoreDurations : d <= COMMAND_TIMEOUT} :
             reqs' = [reqs EXCEPT ![r] =
                 [@ EXCEPT !.pc = "Fetched", !.data = rows, !.waited = seconds,
                           !.bound = ParamValues(reqs[r].sql_query.parameters),
                           !.n_fetch = @ + 1, !.n_statement = @ + 1]]
       \/ \E failure \in FetchFailures :
             reqs' = [reqs EXCEPT ![r] =
                 FetchFailed([@ EXCEPT !.bound = ParamValues(reqs[r].sql_query.parameters)], failure)]
    /\ UNCHANGED <<cache, cache_down, db_pool, pools_created, stats, hashed, validated>>

\* FinishExecution answering at once, the cache write left out.
FinishExecutionResponding(r) ==
    /\ reqs[r].pc = "Fetched"
    /\ reqs' = [reqs EXCEPT ![r] =
          [@ EXCEPT !.pc = "Responded", !.conn = FALSE,
                    !.response = FreshResponse(ResponseData(reqs[r]))]]
    /\ UNCHANGED <<cache, cache_down, db_pool, pools_created, stats, hashed, validated>>

\* The explain plan if requested, then the connection is released.
FinishExecution(r) ==
    /\ reqs[r].pc = "Fetched"
    /\ \/ reqs' = [reqs EXCEPT ![r] =
              IF reqs[r].sql_query.explain
              THEN [@ EXCEPT !.pc = "Executed", !.conn = FALSE, !.n_statement = @ + 1,
                             !.explain_plan = ExplainResult(reqs[r].limited_query)]
              ELSE [@ EXCEPT !.pc = "Executed", !.conn = FALSE]]
       \/ /\ reqs[r].sql_query.explain
          /\ \E e \in StoreErrors :
                reqs' = [reqs EXCEPT ![r] = ExecutionFailed([@ EXCEPT !.n_statement = @ + 1], e)]
    /\ UNCHANGED <<cache, cache_down, db_pool, pools_created, stats, hashed, validated>>

\* Prepare response, then cache the result: redis_client.setex inside try/except.
CacheSet(r) ==
    /\ reqs[r].pc = "Executed"
    /\ \E outcome \in CacheCallOutcomes :
          LET response_data == ResponseData(reqs[r])
              cache_key == CacheKey(reqs[r].query_hash)
          IN  /\ reqs' = [reqs EXCEPT ![r] =
                    [@ EXCEPT !.pc = "Cached", !.response_data = response_data,
                              !.n_cache_set = @ + 1,
                              !.set_outcome = IF outcome = "ok" THEN "ok" ELSE "error"]]
              /\ cache' = IF outcome = "ok"
                          THEN {e \in cache : e.key # cache_key}
                                  \cup {[key |-> cache_key, payload |-> JsonDumps(response_data),
                                         ttl |-> CacheTtl(reqs[r].sql_query)]}
                          ELSE cache
    /\ UNCHANGED <<cache_down, db_pool, pools_created, stats, hashed, validated>>

\* return SQLResponse(**response_data)
Respond(r) ==
    /\ reqs[r].pc = "Cached"
    /\ reqs' = [reqs EXCEPT ![r] =
          [@ EXCEPT !.pc = "Responded", !.response = FreshResponse(reqs[r].response_data)]]
    /\ UNCHANGED <<cache, cache_down, db_pool, pools_created, stats, hashed, validated>>

\* The cache service drops an entry whose TTL has run out.
CacheExpire ==
    /\ \E e \in cache : cache' = cache \ {e}
    /\ UNCHANGED <<reqs, cache_down, db_pool, pools_created, stats, hashed, validated>>

(***************************************************************************)
(* GET /stats                                                              *)
(***************************************************************************)

\* A client sends GET /stats; FastAPI runs verify_token and calls the handler.
SubmitStats(r) ==
    /\ reqs[r].pc = "Idle"
    /\ IF r = 1 THEN TRUE ELSE reqs[r - 1].pc # "Idle"
    /\ \E token \in Tokens :
          reqs' = [reqs EXCEPT ![r] =
              IF ~verify_token(token)
              THEN Unauthorized([@ EXCEPT !.endpoint = "stats", !.token = token])
              ELSE [@ EXCEPT !.endpoint = "stats", !.token = token, !.pc = "StatsReceived"]]
    /\ UNCHANGED <<cache, cache_down, db_pool, pools_created, stats, hashed, validated>>

\* The 500 of the except clause of get_query_stats; get_outcome tells whether
\* it was the cache call that raised.
StatsFailed(req, outcome) ==
    [req EXCEPT !.pc = "StatsFailed", !.get_outcome = IF outcome = "raise" THEN "error" ELSE "ok",
                !.response = [status |-> 500, detail |-> "Failed to retrieve statistics",
                              body |-> NoBody, stats |-> NoStats]]

\* get_query_stats without the `if total_queries > 0` guards: the division
\* raises ZeroDivisionError, which the except clause turns into a 500.
GetStatsUnguarded(r) ==
    /\ reqs[r].pc = "StatsReceived"
    /\ \E outcome \in CacheCallOutcomes :
          LET total_queries == ReadCounter(stats.total_queries)
              cached_queries == ReadCounter(stats.cached_queries)
              total_execution_time == ReadFloat(stats.total_execution_time)
          IN  IF outcome = "raise" \/ total_queries = 0
              THEN reqs' = [reqs EXCEPT ![r] = StatsFailed(@, outcome)]
              ELSE \E avg \in Round2(total_execution_time, total_queries),
                      rate \in Round2(100 * 100 * cached_queries, total_queries) :
                      reqs' = [reqs EXCEPT ![r] =
                          [@ EXCEPT !.pc = "StatsResponded", !.get_outcome = "ok",
                                    !.response = [status |-> 200, detail |-> "", body |-> NoBody,
                                                  stats |-> [total_queries |-> total_queries,
                                                             cached_queries |-> cached_queries,
                                                             avg_execution_time |-> avg,
                                                             cache_hit_rate |-> rate]]]]
    /\ UNCHANGED <<cache, cache_down, db_pool, pools_created, stats, hashed, validated>>

\* get_query_stats: the three counters are read from Redis and the derived
\* metrics computed from them; any exception is a 500.
GetStats(r) ==
    /\ reqs[r].pc = "StatsReceived"
    /\ \E outcome \in CacheCallOutcomes :
          LET total_queries == ReadCounter(stats.total_queries)
              cached_queries == ReadCounter(stats.cached_queries)
              total_execution_time == ReadFloat(stats.total_execution_time)
          IN  IF outcome = "raise"
              THEN reqs' = [reqs EXCEPT ![r] = StatsFailed(@, outcome)]
              ELSE \E avg \in AvgExecutionTime(total_execution_time, total_queries),
                      rate \in CacheHitRate(cached_queries, total_queries) :
                      reqs' = [reqs EXCEPT ![r] =
                          [@ EXCEPT !.pc = "StatsResponded", !.get_outcome = "ok",
                                    !.response = [status |-> 200, detail |-> "", body |-> NoBody,
                                                  stats |-> [total_queries |-> total_queries,
                                                             cached_queries |-> cached_queries,
                                                             avg_execution_time |-> avg,
                                                             cache_hit_rate |-> rate]]]]
    /\ UNCHANGED <<cache, cache_down, db_pool, pools_created, stats, hashed, validated>>

(***************************************************************************)
(* GET /schema, GET /table/{table_name}, GET /health                       *)
(***************************************************************************)

\* A client sends GET /schema; FastAPI runs verify_token and calls the handler.
SubmitSchema(r) ==
    /\ reqs[r].pc = "Idle"
    /\ IF r = 1 THEN TRUE ELSE reqs[r - 1].pc # "Idle"
    /\ \E token \in Tokens :
          reqs' = [reqs EXCEPT ![r] =
              IF ~verify_token(token)
              THEN Unauthorized([@ EXCEPT !.endpoint = "schema", !.token = token])
              ELSE [@ EXCEPT !.endpoint = "schema", !.token = token, !.pc = "SchemaReceived"]]
    /\ UNCHANGED <<cache, cache_down, db_pool, pools_created, stats, hashed, validated>>

\* A client sends GET /table/{table_name}; FastAPI runs verify_token and calls
\* the handler, which tests table_name.lower() against the allow-list.
SubmitTable(r) ==
    /\ reqs[r].pc = "Idle"
    /\ IF r = 1 THEN TRUE ELSE reqs[r - 1].pc # "Idle"
    /\ \E token \in Tokens, table_name \in TableNames :
          reqs' = [reqs EXCEPT ![r] =
              IF ~verify_token(token)
              THEN Unauthorized([@ EXCEPT !.endpoint = "table", !.token = token,
                                          !.table_name = table_name])
              ELSE IF Lower(table_name) \notin ALLOWED_TABLES
              THEN AccessDenied([@ EXCEPT !.endpoint = "table", !.token = token,
                                          !.table_name = table_name])
              ELSE [@ EXCEPT !.endpoint = "table", !.token = token,
                             !.table_name = table_name, !.pc = "TableReceived"]]
    /\ UNCHANGED <<cache, cache_down, db_pool, pools_created, stats, hashed, validated>>

\* A client sends GET /health, which has no verify_token dependency.
SubmitHealth(r) ==
    /\ reqs[r].pc = "Idle"
    /\ IF r = 1 THEN TRUE ELSE reqs[r - 1].pc # "Idle"
    /\ reqs' = [reqs EXCEPT ![r] = [@ EXCEPT !.endpoint = "health", !.pc = "HealthReceived"]]
    /\ UNCHANGED <<cache, cache_down, db_pool, pools_created, stats, hashed, validated>>

\* async with pool.acquire() as conn, in /schema, /table and /health.
AcquireConn(r) ==
    /\ reqs[r].pc = "PoolReady"
    /\ reqs[r].endpoint \in {"schema", "table", "health"}
    /\ \/ reqs' = [reqs EXCEPT ![r] = [@ EXCEPT !.pc = "Acquired", !.conn = TRUE, !.n_acquire = @ + 1]]
       \/ \E e \in PoolErrors : reqs' = [reqs EXCEPT ![r] = EndpointFailed(@, e)]
    /\ UNCHANGED <<cache, cache_down, db_pool, pools_created, stats, hashed, validated>>

\* How many statements get_schema_info and get_table_schema each send.
IntrospectionStatements == 4

\* get_schema_info: the four catalog statements, then return SchemaInfo(...)
\* from inside `async with`.  The statements read the catalog only, so the
\* four awaits are one step; a statement that raises ends the request.
FetchSchema(r) ==
    /\ reqs[r].pc = "Acquired"
    /\ reqs[r].endpoint = "schema"
    /\ \/ reqs' = [reqs EXCEPT ![r] =
              [@ EXCEPT !.pc = "Served", !.conn = FALSE,
                        !.n_statement = @ + IntrospectionStatements,
                        !.schema_info = SchemaRows,
                        !.response = [status |-> 200, detail |-> "", body |-> NoBody, stats |-> NoStats]]]
       \/ \E e \in StoreErrors, sent \in 1..IntrospectionStatements :
             reqs' = [reqs EXCEPT ![r] = EndpointFailed([@ EXCEPT !.n_statement = @ + sent], e)]
    /\ UNCHANGED <<cache, cache_down, db_pool, pools_created, stats, hashed, validated>>

\* get_table_schema: columns, indexes, constraints and row count of
\* $1 = table_name, then return TableSchema(...) from inside `async with`.
FetchTable(r) ==
    /\ reqs[r].pc = "Acquired"
    /\ reqs[r].endpoint = "table"
    /\ \/ reqs' = [reqs EXCEPT ![r] =
              [@ EXCEPT !.pc = "Served", !.conn = FALSE,
                        !.n_statement = @ + IntrospectionStatements,
                        !.table_schema = TableRows(reqs[r].table_name),
                        !.response = [status |-> 200, detail |-> "", body |-> NoBody, stats |-> NoStats]]]
       \/ \E e \in StoreErrors, sent \in 1..IntrospectionStatements :
             reqs' = [reqs EXCEPT ![r] = EndpointFailed([@ EXCEPT !.n_statement = @ + sent], e)]
    /\ UNCHANGED <<cache, cache_down, db_pool, pools_created, stats, hashed, validated>>

\* health_check: await conn.fetchval("SELECT 1"), then the connection is released.
ProbeStore(r) ==
    /\ reqs[r].pc = "Acquired"
    /\ reqs[r].endpoint = "health"
    /\ \/ reqs' = [reqs EXCEPT ![r] =
              [@ EXCEPT !.pc = "Probed", !.conn = FALSE, !.n_statement = @ + 1]]
       \/ \E e \in StoreErrors :
             reqs' = [reqs EXCEPT ![r] = EndpointFailed([@ EXCEPT !.n_statement = @ + 1], e)]
    /\ UNCHANGED <<cache, cache_down, db_pool, pools_created, stats, hashed, validated>>

\* health_check with the ping's exception swallowed.
PingCacheIgnored(r) ==
    /\ reqs[r].pc = "Probed"
    /\ \E outcome \in CacheCallOutcomes :
          reqs' = [reqs EXCEPT ![r] =
              [@ EXCEPT !.pc = "Served",
                        !.get_outcome = IF outcome = "raise" THEN "error" ELSE "ok",
                        !.response = [status |-> 200, detail |-> "healthy",
                                      body |-> NoBody, stats |-> NoStats]]]
    /\ UNCHANGED <<cache, cache_down, db_pool, pools_created, stats, hashed, validated>>

\* health_check: redis_client.ping(), then the healthy answer; a ping that
\* raises reaches the except clause.
PingCache(r) ==
    /\ reqs[r].pc = "Probed"
    /\ \E outcome \in CacheCallOutcomes :
          reqs' = [reqs EXCEPT ![r] =
              IF outcome = "raise"
              THEN EndpointFailed([@ EXCEPT !.get_outcome = "error"], "cache unreachable")
              ELSE [@ EXCEPT !.pc = "Served", !.get_outcome = "ok",
                             !.response = [status |-> 200, detail |-> "healthy",
                                           body |-> NoBody, stats |-> NoStats]]]
    /\ UNCHANGED <<cache, cache_down, db_pool, pools_created, stats, hashed, validated>>

Next ==
    \/ \E r \in ReqIds :
          \/ Submit(r)
          \/ Validate(r)
          \/ CacheGet(r)
          \/ RespondCached(r)
          \/ GetDbPool(r)
          \/ CreatePool(r)
          \/ Acquire(r)
          \/ Fetch(r)
          \/ FinishExecution(r)
          \/ CacheSet(r)
          \/ Respond(r)
          \/ SubmitStats(r)
          \/ GetStats(r)
          \/ SubmitSchema(r)
          \/ FetchSchema(r)
          \/ SubmitTable(r)
          \/ FetchTable(r)
          \/ SubmitHealth(r)
          \/ AcquireConn(r)
          \/ ProbeStore(r)
          \/ PingCache(r)
    \/ CacheExpire

Spec == Init /\ [][Next]_vars

\* POST /query alone, with bodies that carry parameters.
ParamNext ==
    \/ \E r \in ReqIds :
          \/ SubmitBound(r)
          \/ Validate(r)
          \/ CacheGet(r)
          \/ RespondCached(r)
          \/ GetDbPool(r)
          \/ CreatePool(r)
          \/ Acquire(r)
          \/ Fetch(r)
          \/ FinishExecution(r)
          \/ CacheSet(r)
          \/ Respond(r)
    \/ CacheExpire

ParamSpec == Init /\ [][ParamNext]_vars

\* Payloads another writer, or an interrupted write, left in the Redis db
\* under the key of the BoundRequests: the empty text, a text that is not
\* JSON, and an object without query_hash.
ForeignPayloads ==
    {[NoPayload EXCEPT !.form = "empty"],
     [NoPayload EXCEPT !.form = "malformed"],
     [NoPayload EXCEPT !.missing = {"query_hash"}]}

ForeignEntries ==
    {[key |-> CacheKey(generate_query_hash(SQLQuery(body).query, body.parameters)),
      payload |-> payload, ttl |-> CACHE_TTL_DEFAULT] :
        body \in BoundRequests, payload \in ForeignPayloads}

ForeignInit ==
    /\ reqs = [r \in ReqIds |-> IdleRequest]
    /\ cache \in {{e} : e \in ForeignEntries}
    /\ cache_down \in BOOLEAN
    /\ db_pool = 0
    /\ pools_created = 0
    /\ stats = [total_queries |-> NoValue, cached_queries |-> NoValue, total_execution_time |-> NoValue]
    /\ hashed = [i \in HashCallIds |-> NoHashCall]
    /\ validated = NoValidation

ForeignSpec == ForeignInit /\ [][ParamNext]_vars

\* The steps of request r that follow its arrival: the handler's coroutine
\* between two suspension points.
Step(r) ==
    \/ Validate(r) \/ CacheGet(r) \/ RespondCached(r) \/ GetDbPool(r) \/ CreatePool(r)
    \/ Acquire(r) \/ Fetch(r) \/ FinishExecution(r) \/ CacheSet(r) \/ Respond(r)
    \/ GetStats(r) \/ FetchSchema(r) \/ FetchTable(r) \/ AcquireConn(r)
    \/ ProbeStore(r) \/ PingCache(r)

\* The event loop resumes every coroutine whose awaited call has returned or
\* raised, and the calls of the store and of the cache do return or raise:
\* a request that can take a step eventually takes one.
FairSpec == Spec /\ \A r \in ReqIds : WF_vars(Step(r))

(***************************************************************************)
(* generate_query_hash called directly on sample arguments                 *)
(***************************************************************************)

\* Largest number of entries of a sample parameter mapping.
MaxParams == 2

HashQueries == {"SELECT * FROM users WHERE id = $1", "SELECT * FROM users WHERE id = $1:{}"}

SampleKeys == {"id", "limit", "status"}

SampleValues == {[t |-> "int", v |-> "1"], [t |-> "str", v |-> "1"]}

\* The parameter mappings: every insertion order of up to MaxParams entries
\* with distinct keys.
HashParameters ==
    {p \in UNION {[1..n -> [k : SampleKeys, v : SampleValues]] : n \in 0..MaxParams} :
        \A i, j \in 1..Len(p) : p[i].k = p[j].k => i = j}

HashInit ==
    /\ reqs = [r \in ReqIds |-> IdleRequest]
    /\ cache = {}
    /\ cache_down = FALSE
    /\ db_pool = 0
    /\ pools_created = 0
    /\ stats = [total_queries |-> NoValue, cached_queries |-> NoValue, total_execution_time |-> NoValue]
    /\ hashed \in [HashCallIds -> {[query |-> q, parameters |-> p, result |-> "", done |-> FALSE] :
                                      q \in HashQueries, p \in HashParameters}]
    /\ validated = NoValidation

\* Call i returns.
GenerateQueryHash(i) ==
    /\ ~hashed[i].done
    /\ hashed' = [hashed EXCEPT ![i] =
          [@ EXCEPT !.result = generate_query_hash(hashed[i].query, hashed[i].parameters),
                    !.done = TRUE]]
    /\ UNCHANGED <<reqs, cache, cache_down, db_pool, pools_created, stats, validated>>

HashNext == \E i \in HashCallIds : GenerateQueryHash(i)

HashSpec == HashInit /\ [][HashNext]_vars

(***************************************************************************)
(* validate_sql_security called directly on sample queries                 *)
(***************************************************************************)

\* str.capitalize()
Capitalize(word) == ch(word, 1) \o Lower(SubSeq(word, 2, Len(word)))

\* A sample is a query text with what its author put in it: the blocked
\* keywords written as words of their own (`keywords`), the tables its FROM
\* clauses reference (`tables`), the suspicious construct it holds (`pattern`).
Sample(query, kind, keywords, tables, pattern) ==
    [query |-> query, kind |-> kind, keywords |-> keywords, tables |-> tables, pattern |-> pattern]

\* Each blocked keyword, in three letter cases, at the start, in the middle,
\* inside a quoted literal and on the last line of the text.
BlockedSamples ==
    UNION {
        {Sample(w \o " TABLE users", "blocked", {keyword}, {}, ""),
         Sample("SELECT * FROM users; " \o w \o " x", "blocked", {keyword}, {"users"}, ""),
         Sample("SELECT * FROM users WHERE note = '" \o w \o "'", "blocked", {keyword}, {"users"}, ""),
         Sample("SELECT 1 FROM users\n" \o w, "blocked", {keyword}, {"users"}, "")} :
        <<keyword, w>> \in UNION {{<<k, k>>, <<k, Lower(k)>>, <<k, Capitalize(k)>>} : k \in BLOCKED_KEYWORDS}}
    \cup {Sample("DROP TABLE users; DELETE FROM users", "blocked", {"DROP", "DELETE"}, {"users"}, "separator")}

\* Statements that are neither SELECT nor WITH.
OtherStatements ==
    {"EXPLAIN SELECT * FROM users", "SHOW server_version", "VALUES (1)", "TABLE users",
     "CALL refresh_stats()", "SET search_path TO public", "(SELECT * FROM users)"}

NotSelectSamples ==
    {Sample(lead \o text, "not_select", {}, {}, "") :
        lead \in {"", "  ", "\n\t"},
        text \in OtherStatements \cup {Lower(t) : t \in OtherStatements}}

\* Queries by the tables their FROM clauses reference.
TableSamples ==
    {Sample("SELECT * FROM users", "table", {}, {"users"}, ""),
     Sample("select name from Candidates", "table", {}, {"candidates"}, ""),
     Sample("SELECT * FROM pg_shadow", "table", {}, {"pg_shadow"}, ""),
     Sample("SELECT * FROM users WHERE id IN (SELECT usesysid FROM pg_shadow)", "table", {}, {"users", "pg_shadow"}, ""),
     Sample("SELECT * FROM users, pg_shadow", "table", {}, {"users", "pg_shadow"}, ""),
     Sample("SELECT * FROM \"pg_shadow\"", "table", {}, {"pg_shadow"}, ""),
     Sample("SELECT * FROM pg_catalog.pg_shadow", "table", {}, {"pg_shadow"}, ""),
     Sample("SELECT * FROM users JOIN jobs ON jobs.owner = users.id", "table", {}, {"users", "jobs"}, "")}

\* Queries that hold a suspicious construct.
SuspiciousSamples ==
    {Sample("SELECT * FROM users; DROP TABLE users", "suspicious", {"DROP"}, {"users"}, "separator"),
     Sample("SELECT name FROM users UNION SELECT table_name FROM information_schema.tables",
            "suspicious", {}, {"users", "tables"}, "union_probe"),
     Sample("SELECT /* hidden */ * FROM users", "suspicious", {}, {"users"}, "block_comment"),
     Sample("SELECT /* hidden\n */ * FROM users", "suspicious", {}, {"users"}, "block_comment"),
     Sample("SELECT * FROM users -- WHERE active", "suspicious", {}, {"users"}, "line_comment"),
     Sample("SELECT xp_cmdshell('dir')", "suspicious", {}, {}, "procedure"),
     Sample("SELECT XP_CMDSHELL('dir')", "suspicious", {}, {}, "procedure"),
     Sample("SELECT sp_executesql('SELECT 1')", "suspicious", {}, {}, "procedure"),
     Sample("SELECT EXEC('SELECT 1')", "suspicious", {}, {}, "procedure"),
     Sample("select execute ('SELECT 1')", "suspicious", {}, {}, "procedure")}

\* Queries with none of the above.
PlainSamples ==
    {Sample("  with recent as (select 1) select 2", "plain", {}, {}, ""),
     Sample("SELECT created_at, updated FROM jobs", "plain", {}, {"jobs"}, "")}

\* Queries that fail more than one of the four checks.
OrderSamples ==
    {Sample("DROP TABLE users", "order", {"DROP"}, {}, ""),
     Sample("SELECT * FROM pg_shadow WHERE note = 'delete'", "order", {"DELETE"}, {"pg_shadow"}, ""),
     Sample("SHOW search_path -- now", "order", {}, {}, "line_comment"),
     Sample("(SELECT * FROM pg_shadow)", "order", {}, {"pg_shadow"}, ""),
     Sample("SELECT * FROM pg_shadow -- all", "order", {}, {"pg_shadow"}, "line_comment"),
     Sample("EXPLAIN SELECT * FROM pg_shadow -- all", "order", {}, {"pg_shadow"}, "line_comment"),
     Sample("delete from pg_shadow; -- all", "order", {"DELETE"}, {"pg_shadow"}, "line_comment")}

ValidatorSamples ==
    BlockedSamples \cup NotSelectSamples \cup TableSamples \cup SuspiciousSamples
        \cup PlainSamples \cup OrderSamples

ValidatorInit ==
    /\ reqs = [r \in ReqIds |-> IdleRequest]
    /\ cache = {}
    /\ cache_down = FALSE
    /\ db_pool = 0
    /\ pools_created = 0
    /\ stats = [total_queries |-> NoValue, cached_queries |-> NoValue, total_execution_time |-> NoValue]
    /\ hashed = [i \in HashCallIds |-> NoHashCall]
    /\ validated \in {[sample |-> sample, result |-> FALSE, log |-> "", done |-> FALSE] :
                           sample \in ValidatorSamples}

\* The call returns: True with nothing logged, or False after one warning.
ValidateSqlSecurity ==
    /\ ~validated.done
    /\ IF validate_sql_security(validated.sample.query)
       THEN validated' = [validated EXCEPT !.result = TRUE, !.done = TRUE]
       ELSE \E log \in ValidationLogs(validated.sample.query) :
               validated' = [validated EXCEPT !.result = FALSE, !.log = log, !.done = TRUE]
    /\ UNCHANGED <<reqs, cache, cache_down, db_pool, pools_created, stats, hashed>>

ValidatorNext == ValidateSqlSecurity

ValidatorSpec == ValidatorInit /\ [][ValidatorNext]_vars

(***************************************************************************)
(* get_query_stats over counters that other writers have left in Redis     *)
(***************************************************************************)

\* Largest value of the two integer counters.
MaxCount == 3

\* What sql_stats:total_queries and sql_stats:cached_queries may hold.
CounterTexts == {NoValue} \cup {IntToStr(n) : n \in 0..MaxCount}

\* What sql_stats:total_execution_time may hold (milliseconds).
TimeTexts == {NoValue, "0", "250", "12.5", "1000.25"}

StatsInit ==
    /\ reqs = [r \in ReqIds |-> IdleRequest]
    /\ cache = {}
    /\ cache_down \in BOOLEAN
    /\ db_pool = 0
    /\ pools_created = 0
    /\ stats \in [total_queries : CounterTexts, cached_queries : CounterTexts,
                   total_execution_time : TimeTexts]
    /\ hashed = [i \in HashCallIds |-> NoHashCall]
    /\ validated = NoValidation

StatsNext == \E r \in ReqIds : SubmitStats(r) \/ GetStats(r)

StatsSpec == StatsInit /\ [][StatsNext]_vars

(***************************************************************************)
(* Properties                                                              *)
(***************************************************************************)

\* The POST /query requests whose handler was called.
QueryReqs == {r \in ReqIds : reqs[r].endpoint = "query" /\ reqs[r].pc # "Unauthorized"}

\* The POST /query requests that have passed the security validation.
ValidatedReqs == {r \in QueryReqs : reqs[r].pc \notin {"Idle", "Received", "Rejected"}}

\* C1: a POST /query request whose text validate_sql_security rejects ends in
\* Rejected and has by then read no cache entry, written none, acquired no
\* connection and sent no statement; no stats counter was updated for it.
C1_RejectedDoesNoIO ==
    /\ \A r \in QueryReqs :
          (reqs[r].pc # "Idle" /\ ~SecurityVerdict[reqs[r].sql_query.query]) =>
              /\ reqs[r].pc \in {"Received", "Rejected"}
              /\ reqs[r].n_cache_get = 0
              /\ reqs[r].n_cache_set = 0
              /\ reqs[r].n_acquire = 0
              /\ reqs[r].n_statement = 0
              /\ ~reqs[r].conn
    /\ ReadCounter(stats.total_queries) <= Cardinality(ValidatedReqs)

C1_Witness ==
    \E r \in QueryReqs :
        /\ reqs[r].pc = "Rejected"
        /\ reqs[r].response.status = 400
        /\ \E o \in QueryReqs : reqs[o].n_cache_get = 1 /\ reqs[o].n_statement = 1

\* C2: a request whose cache get returned a stored payload never invokes
\* the execution engine (no connection acquired, no statement sent), and its
\* response carries cached = TRUE.
C2_CacheHitSkipsExecution ==
    \A r \in QueryReqs :
        reqs[r].get_outcome = "hit" =>
            /\ reqs[r].pc \in {"CacheHit", "Responded"}
            /\ reqs[r].n_acquire = 0
            /\ reqs[r].n_fetch = 0
            /\ reqs[r].n_statement = 0
            /\ ~reqs[r].conn
            /\ reqs[r].pc = "Responded" =>
                  reqs[r].response.status = 200 /\ reqs[r].response.body.cached

C2_Witness ==
    \E r \in QueryReqs :
        reqs[r].get_outcome = "hit" /\ reqs[r].pc = "Responded" /\ reqs[r].response.body.row_count > 0

C4_RowCountCapped ==
    \A r \in QueryReqs :
        reqs[r].pc = "Responded" => reqs[r].response.body.row_count <= MAX_ROWS_RETURNED

\* The query holds the keyword LIMIT (in any case) as a word of its own.
HasLimitClause(query) == SearchWord(Upper(query), "LIMIT")

\* C5: the statement sent to the store is the query text with LIMIT
\* MAX_ROWS_RETURNED appended when the text holds no LIMIT clause, and the
\* query text itself when it holds one.
C5_LimitInjected ==
    \A r \in QueryReqs :
        reqs[r].n_fetch > 0 =>
            reqs[r].limited_query =
                IF HasLimitClause(reqs[r].sql_query.query)
                THEN reqs[r].sql_query.query
                ELSE reqs[r].sql_query.query \o " LIMIT " \o IntToStr(MAX_ROWS_RETURNED)

\* C6: total_queries counts every request that completed validation and has
\* ended (cache hit, successful or failed execution) exactly once, and a
\* /stats response never reports more than that.
C6_StatsCountValidated ==
    /\ ReadCounter(stats.total_queries) =
          Cardinality({r \in ValidatedReqs : reqs[r].pc \in {"Responded", "ExecutionFailed"}})
    /\ \A r \in ReqIds :
          reqs[r].pc = "StatsResponded" => reqs[r].response.stats.total_queries <= ReadCounter(stats.total_queries)

\* C7: two requests that differ only in the message of the exception the
\* store raised receive the same response (status and detail).
C7_NoStoreErrorLeak ==
    \A r1, r2 \in QueryReqs :
        (/\ reqs[r1].pc = "ExecutionFailed"
         /\ reqs[r2].pc = "ExecutionFailed"
         /\ reqs[r1].sql_query = reqs[r2].sql_query
         /\ reqs[r1].get_outcome = reqs[r2].get_outcome
         /\ reqs[r1].n_acquire = reqs[r2].n_acquire
         /\ reqs[r1].n_statement = reqs[r2].n_statement) =>
            reqs[r1].response = reqs[r2].response

\* C8: a POST /query request that has ended is Responded with 200, Rejected
\* with 400, or ExecutionFailed with 500.
C8_ThreeOutcomes ==
    \A r \in QueryReqs :
        reqs[r].pc \in Terminal =>
            \/ reqs[r].pc = "Responded" /\ reqs[r].response.status = 200
            \/ reqs[r].pc = "Rejected" /\ reqs[r].response.status = 400
            \/ reqs[r].pc = "ExecutionFailed" /\ reqs[r].response.status = 500

\* How far along the request state machine a position is.
Rank(pc) ==
    CASE pc = "Idle" -> 0
      [] pc \in {"Received", "StatsReceived", "SchemaReceived", "TableReceived", "HealthReceived"} -> 1
      [] pc = "Validated" -> 2
      [] pc \in {"CacheHit", "CacheMiss"} -> 3
      [] pc = "PoolCreating" -> 4
      [] pc = "PoolReady" -> 5
      [] pc = "Acquired" -> 6
      [] pc \in {"Fetched", "Probed"} -> 7
      [] pc = "Executed" -> 8
      [] pc = "Cached" -> 9
      [] OTHER -> 10

\* C9: a request sends its data query to the store at most once; a store
\* error takes it straight to ExecutionFailed; every step moves it forward
\* and an ended request never changes again.
C9_NoRetry ==
    [][\A r \in ReqIds :
          /\ reqs'[r].n_fetch <= 1
          /\ reqs[r].pc \in Terminal => reqs'[r] = reqs[r]
          /\ reqs'[r].pc # reqs[r].pc => Rank(reqs'[r].pc) > Rank(reqs[r].pc)
          /\ reqs'[r].n_fetch > reqs[r].n_fetch =>
                reqs'[r].pc \in {"Fetched", "ExecutionFailed"}
          /\ (reqs[r].store_error = "" /\ reqs'[r].store_error # "") =>
                reqs'[r].pc = IF reqs[r].endpoint = "query" THEN "ExecutionFailed" ELSE "Failed"]_vars

C9_Witness ==
    \E r \in QueryReqs :
        reqs[r].pc = "ExecutionFailed" /\ reqs[r].n_fetch = 1 /\ reqs[r].store_error \in StoreErrors

\* C10: when a request executed, was cached and answered, and a second
\* request with the same query text and parameters then hits the entry the
\* first one wrote, the second response has cached = TRUE and the data of
\* the first response.
C10_SecondResponseIdentical ==
    \A r1, r2 \in QueryReqs :
        (/\ r1 # r2
         /\ reqs[r1].pc = "Responded"
         /\ reqs[r1].get_outcome # "hit"
         /\ reqs[r1].set_outcome = "ok"
         /\ reqs[r2].pc = "Responded"
         /\ reqs[r2].get_outcome = "hit"
         /\ reqs[r2].sql_query.query = reqs[r1].sql_query.query
         /\ reqs[r2].sql_query.parameters = reqs[r1].sql_query.parameters
         /\ reqs[r2].cached_result = JsonDumps(reqs[r1].response_data)) =>
            /\ reqs[r2].response.body.cached
            /\ reqs[r2].response.body.data = reqs[r1].response.body.data

\* The key/value pairs of a parameter mapping, whatever their insertion order.
Pairs(parameters) == {parameters[i] : i \in 1..Len(parameters)}

\* C11: two calls of generate_query_hash with the same query text and
\* parameter mappings that hold the same key/value pairs return the same hash,
\* whatever the order in which the pairs were inserted.
C11_HashOrderIndependent ==
    (/\ hashed[1].done
     /\ hashed[2].done
     /\ hashed[1].query = hashed[2].query
     /\ Pairs(hashed[1].parameters) = Pairs(hashed[2].parameters)) =>
        hashed[1].result = hashed[2].result

C11_Witness ==
    /\ hashed[1].done
    /\ hashed[2].done
    /\ hashed[1].query = hashed[2].query
    /\ Len(hashed[1].parameters) = 2
    /\ hashed[1].parameters # hashed[2].parameters
    /\ Pairs(hashed[1].parameters) = Pairs(hashed[2].parameters)
    /\ hashed[1].result = hashed[2].result

\* C12: two calls of generate_query_hash whose query texts differ, or whose
\* parameter mappings differ in a key or in the value of a key, return
\* different hashes.
C12_HashDistinguishes ==
    (/\ hashed[1].done
     /\ hashed[2].done
     /\ \/ hashed[1].query # hashed[2].query
        \/ Pairs(hashed[1].parameters) # Pairs(hashed[2].parameters)) =>
        hashed[1].result # hashed[2].result

C12_Witness ==
    /\ hashed[1].done
    /\ hashed[2].done
    /\ hashed[1].query = hashed[2].query
    /\ hashed[1].parameters = <<[k |-> "id", v |-> [t |-> "int", v |-> "1"]]>>
    /\ hashed[2].parameters = <<[k |-> "id", v |-> [t |-> "str", v |-> "1"]]>>
    /\ hashed[1].result # hashed[2].result

\* C13: a query that holds a blocked keyword as a word of its own, in any
\* letter case and at any position, is rejected, and the warning logged
\* cites a blocked keyword the query holds (the one it holds, when it holds
\* one only).
C13_BlockedKeywordRejected ==
    (validated.done /\ validated.sample.kind = "blocked") =>
        /\ ~validated.result
        /\ validated.log \in {"Blocked keyword detected: " \o keyword :
                                  keyword \in validated.sample.keywords}

C13_Witness ==
    /\ validated.done
    /\ validated.sample.query = "SELECT * FROM users WHERE note = 'truncate'"
    /\ ~validated.result
    /\ validated.log = "Blocked keyword detected: TRUNCATE"

\* The text, trimmed and upper-cased, begins with SELECT or WITH.
BeginsWithSelectOrWith(query) ==
    \/ MatchAt(Upper(LStrip(query)), 1, "SELECT")
    \/ MatchAt(Upper(LStrip(query)), 1, "WITH")

\* C14: a query whose text, trimmed and case-normalized, does not begin
\* with SELECT or WITH is rejected.
C14_NonSelectRejected ==
    (validated.done /\ ~BeginsWithSelectOrWith(validated.sample.query)) => ~validated.result

C14_Witness ==
    /\ validated.done
    /\ validated.sample.query = "\n\texplain select * from users"
    /\ ~validated.result
    /\ validated.log = "Invalid query type: EXPLAIN SELECT * FRO..."

\* C15: every accepted query references only allow-listed tables in its
\* FROM clauses.
C15_OnlyAllowedTables ==
    (validated.done /\ validated.result) => validated.sample.tables \subseteq ALLOWED_TABLES

\* C16: a query that holds a suspicious construct (separator and mutating
\* keyword, UNION probe of INFORMATION_SCHEMA, block comment, line comment,
\* command-execution or dynamic-SQL procedure, in any letter case) is rejected.
C16_SuspiciousRejected ==
    (validated.done /\ validated.sample.kind = "suspicious") => ~validated.result

\* The endpoints that declare Depends(verify_token).
AuthEndpoints == {"query", "schema", "table", "stats"}

\* The credentials verify_token refuses.
RejectedTokens == {"", "invalid"}

\* C17: a request to POST /query, GET /schema, GET /table/{name} or GET
\* /stats whose credentials verify_token refuses ends with 401 at once: it
\* is never validated, reads and writes no cache entry, acquires no
\* connection and sends no statement.  GET /health carries no credentials
\* and is never answered 401.
C17_AuthBeforeLogic ==
    \A r \in ReqIds :
        /\ (reqs[r].endpoint \in AuthEndpoints /\ reqs[r].token \in RejectedTokens) =>
              /\ reqs[r].pc = "Unauthorized"
              /\ reqs[r].response.status = 401
              /\ reqs[r].query_hash = ""
              /\ reqs[r].n_cache_get = 0
              /\ reqs[r].n_cache_set = 0
              /\ reqs[r].n_acquire = 0
              /\ reqs[r].n_statement = 0
              /\ ~reqs[r].conn
        /\ reqs[r].endpoint = "health" =>
              reqs[r].token = "" /\ reqs[r].pc # "Unauthorized" /\ reqs[r].response.status # 401

C17_Witness ==
    \E r1, r2 \in ReqIds :
        /\ reqs[r1].endpoint = "table"
        /\ reqs[r1].token = "invalid"
        /\ reqs[r1].pc = "Unauthorized"
        /\ reqs[r1].response.status = 401
        /\ reqs[r2].endpoint = "health"
        /\ reqs[r2].pc = "Served"
        /\ reqs[r2].response.status = 200

\* C18: a GET /table/{name} request (with accepted credentials) whose name
\* is not in ALLOWED_TABLES ends with 403, having acquired no connection
\* and sent no statement; and a name bound into the introspection statements
\* is in ALLOWED_TABLES.
C18_TableAllowList ==
    \A r \in ReqIds :
        (reqs[r].endpoint = "table" /\ reqs[r].pc # "Unauthorized") =>
            /\ reqs[r].table_name \notin ALLOWED_TABLES =>
                  /\ reqs[r].pc = "Denied"
                  /\ reqs[r].response.status = 403
                  /\ reqs[r].n_acquire = 0
                  /\ reqs[r].n_statement = 0
            /\ reqs[r].n_statement > 0 => reqs[r].table_name \in ALLOWED_TABLES

\* C19: every descriptor of a SchemaInfo that GET /schema returns belongs to
\* the configured allow-list: tables and views by name, indexes by their
\* table, functions by name (ALLOWED_FUNCTIONS or ALLOWED_TABLES).
C19_SchemaAllowListed ==
    \A r \in ReqIds :
        (reqs[r].endpoint = "schema" /\ reqs[r].pc = "Served") =>
            /\ reqs[r].schema_info.tables \subseteq ALLOWED_TABLES
            /\ reqs[r].schema_info.views \subseteq ALLOWED_TABLES
            /\ \A f \in reqs[r].schema_info.functions :
                  Upper(f) \in ALLOWED_FUNCTIONS \/ f \in ALLOWED_TABLES
            /\ \A i \in reqs[r].schema_info.indexes : i.tablename \in ALLOWED_TABLES

\* C20: the data query of a request never keeps it waiting longer than the
\* request's timeout: a statement the store has not completed by then is
\* aborted and the request fails instead of being answered.
C20_TimeoutBoundsExecution ==
    \A r \in QueryReqs : reqs[r].waited <= reqs[r].sql_query.timeout

\* C21: a /stats response carries avg_execution_time = total_execution_time /
\* total_queries and cache_hit_rate = cached_queries / total_queries * 100,
\* each to the nearest hundredth, when total_queries > 0, and 0 for both when
\* total_queries is 0 (an absent counter reads 0); the handler fails only
\* when a cache call raised, never because of the division.
C21_StatsArithmetic ==
    \A r \in ReqIds :
        LET total_queries == ReadCounter(stats.total_queries)
            cached_queries == ReadCounter(stats.cached_queries)
            total_execution_time == ReadFloat(stats.total_execution_time)
            answer == reqs[r].response.stats
        IN  /\ reqs[r].pc = "StatsFailed" => reqs[r].get_outcome = "error"
            /\ reqs[r].pc = "StatsResponded" =>
                  /\ reqs[r].response.status = 200
                  /\ answer.total_queries = total_queries
                  /\ answer.cached_queries = cached_queries
                  /\ total_queries = 0 =>
                        answer.avg_execution_time = 0 /\ answer.cache_hit_rate = 0
                  /\ total_queries > 0 =>
                        /\ 2 * answer.avg_execution_time * total_queries
                              - 2 * total_execution_time <= total_queries
                        /\ 2 * total_execution_time
                              - 2 * answer.avg_execution_time * total_queries <= total_queries
                        /\ 2 * answer.cache_hit_rate * total_queries
                              - 2 * 10000 * cached_queries <= total_queries
                        /\ 2 * 10000 * cached_queries
                              - 2 * answer.cache_hit_rate * total_queries <= total_queries

\* The counters are absent although a cumulative time is stored, and /stats
\* answered 200 with both metrics 0.
C21_Witness ==
    \E r \in ReqIds :
        /\ reqs[r].pc = "StatsResponded"
        /\ stats.total_queries = NoValue
        /\ stats.total_execution_time = "250"
        /\ reqs[r].response.stats.avg_execution_time = 0
        /\ reqs[r].response.stats.cache_hit_rate = 0

\* The /health requests.
HealthReqs == {r \in ReqIds : reqs[r].endpoint = "health"}

\* C22: /health answers healthy only after it acquired a connection from the
\* pool, its SELECT 1 returned and the cache answered the ping; when the pool
\* cannot be created, no connection can be had, the probe fails or the ping
\* raises, the answer is 503; with the cache down no /health request is served.
C22_HealthNeedsBoth ==
    \A r \in HealthReqs :
        /\ reqs[r].pc = "Served" =>
              /\ reqs[r].response.status = 200
              /\ reqs[r].response.detail = "healthy"
              /\ db_pool # 0
              /\ reqs[r].n_acquire = 1
              /\ reqs[r].n_statement = 1
              /\ reqs[r].store_error = ""
              /\ reqs[r].get_outcome = "ok"
              /\ ~cache_down
        /\ (reqs[r].store_error # "" \/ reqs[r].get_outcome = "error") =>
              /\ reqs[r].pc = "Failed"
              /\ reqs[r].response.status = 503
              /\ reqs[r].response.detail = "Service unavailable"
        /\ reqs[r].pc \in Terminal => reqs[r].pc \in {"Served", "Failed"}
        /\ reqs[r].pc = "Failed" => reqs[r].response.status = 503

\* The store answered the probe, the ping raised, and /health answered 503.
C22_Witness ==
    \E r \in HealthReqs :
        /\ reqs[r].pc = "Failed"
        /\ reqs[r].n_statement = 1
        /\ reqs[r].store_error = "cache unreachable"
        /\ reqs[r].response.status = 503

\* The state of the request state machine a position belongs to: from the
\* cache miss to the end of the execution block the request is in CacheMiss.
Phase(pc) ==
    IF pc \in {"PoolCreating", "PoolReady", "Acquired", "Fetched"} THEN "CacheMiss" ELSE pc

QueryTransitions ==
    {<<"Received", "Validated">>, <<"Received", "Rejected">>,
     <<"Validated", "CacheHit">>, <<"Validated", "CacheMiss">>,
     <<"CacheHit", "Responded">>,
     <<"CacheMiss", "Executed">>, <<"CacheMiss", "ExecutionFailed">>,
     <<"Executed", "Cached">>, <<"Cached", "Responded">>}

QueryTerminal == {"Responded", "Rejected", "ExecutionFailed"}

FailedChecks(query) ==
    LET query_upper == Strip(Upper(query)) IN
    {i \in 1..4 : CASE i = 1 -> BlockedKeywordHit(query_upper)
                     [] i = 2 -> InvalidQueryType(query_upper)
                     [] i = 3 -> SuspiciousPatternHit(query_upper)
                     [] i = 4 -> DisallowedTable(query_upper)}

\* How the warning of each check begins.
ReasonPrefixes ==
    <<"Blocked keyword detected: ", "Invalid query type: ",
      "Suspicious pattern detected: ", "Access to table '">>

\* C24: validate_sql_security returns True exactly when none of its four
\* checks fails, and otherwise logs the warning of the first failing check in
\* the order blocked keyword, SELECT/WITH prefix, suspicious pattern, table
\* allow-list; SELECT * FROM users; DROP TABLE users is rejected with the
\* warning that names DROP.
C24_FirstFailingCheck ==
    validated.done =>
        LET failed == FailedChecks(validated.sample.query) IN
        /\ validated.result = (failed = {})
        /\ failed # {} =>
              LET first == CHOOSE i \in failed : \A j \in failed : i <= j IN
              /\ StartsWith(validated.log, ReasonPrefixes[first])
              /\ \A i \in 1..4 : i # first => ~StartsWith(validated.log, ReasonPrefixes[i])
        /\ validated.sample.query = "SELECT * FROM users; DROP TABLE users" =>
              /\ ~validated.result
              /\ validated.log = "Blocked keyword detected: DROP"

\* The scenario's query fails the blocked-keyword check and the suspicious
\* pattern check; it was rejected with the warning of the first.
C24_Witness ==
    /\ validated.done
    /\ validated.sample.query = "SELECT * FROM users; DROP TABLE users"
    /\ FailedChecks(validated.sample.query) = {1, 3}
    /\ ~validated.result
    /\ validated.log = "Blocked keyword detected: DROP"

\* C25: a request calls setex only after a lookup that returned nothing
\* usable or raised and an execution in which every statement it sent (the data query
\* and, when explain is set, the explain statement) succeeded; a request that
\* was rejected, that was answered from the cache or whose execution failed
\* has written nothing.  The cache changes only by such a write, which
\* replaces the entry under the request's own key, or by the cache service
\* dropping an entry: no request removes one.
C25_CacheWriteOnlyAfterSuccess ==
    [][/\ \A r \in ReqIds :
             /\ reqs'[r].n_cache_set > reqs[r].n_cache_set =>
                   /\ reqs[r].endpoint = "query"
                   /\ reqs[r].pc = "Executed"
                   /\ reqs[r].get_outcome \in {"miss", "error", "invalid"}
                   /\ reqs[r].n_fetch = 1
                   /\ reqs[r].store_error = ""
                   /\ reqs[r].sql_query.explain => reqs[r].explain_plan # NoPlan
             /\ (reqs'[r].pc \in {"Rejected", "ExecutionFailed", "Unauthorized"}
                    \/ reqs'[r].get_outcome = "hit") => reqs'[r].n_cache_set = 0
       /\ cache' # cache =>
             \/ \E r \in ReqIds :
                   /\ reqs'[r].n_cache_set = reqs[r].n_cache_set + 1
                   /\ reqs'[r].set_outcome = "ok"
                   /\ \E e \in cache' :
                         /\ e.key = CacheKey(reqs[r].query_hash)
                         /\ e.payload = JsonDumps(reqs'[r].response_data)
                         /\ cache' \ {e} = {old \in cache : old.key # e.key}
             \/ /\ reqs' = reqs
                /\ \E e \in cache : cache' = cache \ {e}]_vars

\* One request failed on its explain statement and wrote nothing; the other
\* executed the same query and its payload is the entry in the cache.
C25_Witness ==
    \E r1, r2 \in QueryReqs :
        /\ reqs[r1].pc = "ExecutionFailed"
        /\ reqs[r1].n_fetch = 1
        /\ reqs[r1].n_statement = 2
        /\ reqs[r1].n_cache_set = 0
        /\ reqs[r2].pc = "Responded"
        /\ reqs[r2].n_cache_set = 1
        /\ reqs[r2].query_hash = reqs[r1].query_hash
        /\ \E e \in cache : e.payload = JsonDumps(reqs[r2].response_data)

\* C26: two validated requests with the same cache key send the same
\* statement with the same sequence of bound values, and a request answered
\* from the entry another request wrote is answered with the payload of an
\* execution that bound the values in the order of its own mapping.
C26_SameKeySameBinding ==
    \A r1, r2 \in ValidatedReqs :
        reqs[r1].query_hash = reqs[r2].query_hash =>
            /\ (reqs[r1].n_fetch = 1 /\ reqs[r2].n_fetch = 1) =>
                  /\ reqs[r1].limited_query = reqs[r2].limited_query
                  /\ reqs[r1].bound = reqs[r2].bound
            /\ (/\ reqs[r2].get_outcome = "hit"
                /\ reqs[r1].set_outcome = "ok"
                /\ reqs[r2].cached_result = JsonDumps(reqs[r1].response_data)) =>
                  reqs[r1].bound = ParamValues(reqs[r2].sql_query.parameters)

\* C27: a request with explain set that is answered 200 receives an explain
\* plan, and one without receives none, whatever the cache holds.
C27_ExplainHonoured ==
    \A r \in QueryReqs :
        reqs[r].pc = "Responded" =>
            (reqs[r].sql_query.explain <=> reqs[r].response.body.explain_plan # NoPlan)

\* C28: get_db_pool creates the pool at most once, whatever the interleaving.
C28_PoolCreatedOnce == pools_created <= 1

\* C29: a request holds a connection only between its acquisition and the
\* end of the `async with` block; it holds none when it calls the cache
\* (the lookup and the write of POST /query, the ping of /health, the reads
\* of /stats) and none once it has ended, on the success and on the failure
\* path; so with every request ended no connection is checked out.
C29_ConnectionsReleased ==
    /\ \A r \in ReqIds :
          /\ reqs[r].conn => (reqs[r].pc \in {"Acquired", "Fetched"} /\ reqs[r].n_acquire = 1)
          /\ reqs[r].pc \in {"Validated", "Executed", "Probed", "StatsReceived"} => ~reqs[r].conn
          /\ reqs[r].pc \in Terminal => ~reqs[r].conn
          /\ reqs[r].n_acquire <= 1
    /\ (\A r \in ReqIds : reqs[r].pc \in Terminal) =>
          Cardinality({r \in ReqIds : reqs[r].conn}) = 0

\* A POST /query whose statement the store refused and a /health whose ping
\* raised have both ended; each had acquired a connection and holds none.
C29_Witness ==
    \E r1, r2 \in ReqIds :
        /\ reqs[r1].endpoint = "query"
        /\ reqs[r1].pc = "ExecutionFailed"
        /\ reqs[r1].n_acquire = 1
        /\ reqs[r1].n_fetch = 1
        /\ ~reqs[r1].conn
        /\ reqs[r2].endpoint = "health"
        /\ reqs[r2].pc = "Failed"
        /\ reqs[r2].n_acquire = 1
        /\ reqs[r2].get_outcome = "error"
        /\ ~reqs[r2].conn

\* A request whose lookup returned a payload it could not use: the empty
\* text, a text json.loads refuses, or an object SQLResponse refuses.
ReadUnusable(r) ==
    /\ reqs[r].n_cache_get = 1
    /\ reqs[r].get_outcome \in {"miss", "invalid"}
    /\ (~Truthy(reqs[r].cached_result) \/ ~Decodable(reqs[r].cached_result))

\* C30: a request whose lookup returned a payload that is empty, is not JSON
\* or lacks a field of the response is never answered from the cache: it is
\* where a miss would have put it, executes its statement, is answered with
\* the response built from the execution, and once its cache write has
\* succeeded the entry under its key is a payload the gateway wrote.  A
\* request counted as a hit read a payload that decodes.
C30_UndecodableIsMiss ==
    \A r \in QueryReqs :
        /\ reqs[r].get_outcome = "hit" =>
              (Truthy(reqs[r].cached_result) /\ Decodable(reqs[r].cached_result))
        /\ reqs[r].get_outcome = "invalid" =>
              (Truthy(reqs[r].cached_result) /\ ~Decodable(reqs[r].cached_result))
        /\ ReadUnusable(r) =>
              /\ reqs[r].pc \notin {"Validated", "CacheHit"}
              /\ reqs[r].pc \in {"Executed", "Cached", "Responded"} =>
                    (reqs[r].n_fetch = 1 /\ reqs[r].store_error = "")
              /\ reqs[r].pc = "Responded" =>
                    /\ reqs[r].response = FreshResponse(ResponseData(reqs[r]))
                    /\ ~reqs[r].response.body.cached
              /\ reqs[r].set_outcome = "ok" =>
                    \A e \in cache :
                        e.key = CacheKey(reqs[r].query_hash) =>
                            (Truthy(e.payload) /\ Decodable(e.payload))

\* The lookup returned a text that is not JSON; the request executed, was
\* answered 200 and its payload now is the entry under the key.
C30_Witness ==
    \E r \in QueryReqs :
        /\ reqs[r].get_outcome = "invalid"
        /\ reqs[r].cached_result.form = "malformed"
        /\ reqs[r].pc = "Responded"
        /\ reqs[r].response.status = 200
        /\ reqs[r].set_outcome = "ok"
        /\ \E e \in cache :
              /\ e.key = CacheKey(reqs[r].query_hash)
              /\ e.payload = JsonDumps(reqs[r].response_data)

=============================================================================
